---- MODULE Spec2Model ----
(***************************************************************************)
(* A model of sim.c, the demon-invasion battle simulator: the attribute    *)
(* model, the card and card-set model, the random stream, the ability      *)
(* resolution engine and the battle loop (Simulate).                       *)
(*                                                                         *)
(* A State of the program is a record; every C function that changes the   *)
(* State is an operator from State to State, loops are RECURSIVE operators *)
(* that re-read the State on every iteration exactly as the C loops do     *)
(* (a Card* into the field is a slot index of the field array, so a        *)
(* pointer that outlives a compaction of the field names whatever card     *)
(* now sits in that slot, stale slots past numCards included).             *)
(***************************************************************************)
EXTENDS Integers, Sequences, FiniteSets, TLC

VARIABLES
    state,      \* the worker's State structure (battle specification)
    pc,         \* position of the worker in ThreadSimulate / Simulate
    completed,  \* history: number of loop iterations of Simulate that ran to their end
    hitRoundX,  \* the bool Simulate sets when the battle reaches round X
    config,     \* the globals read by the engine (deck, demon, runes, maxRounds, ...)
    card,       \* the card a card-level operation is applied to (card specification)
    call,       \* the last operation applied, with its arguments and results
                \* (battle specification: history, see Seen)
    defaultState, \* the static State main initializes and InitState copies
    states,     \* states[i]: the State of thread i (AllocateStates)
    tasks,      \* tasks[i]: the Task of thread i
    results,    \* results[i]: the Result of thread i
    worker,     \* worker[i]: position and locals of thread i in ThreadSimulate
    main        \* the locals of main (program specification)

progVars == <<defaultState, states, tasks, results, worker, main>>

vars == <<state, pc, completed, hitRoundX, config, card, call,
          defaultState, states, tasks, results, worker, main>>

(***************************************************************************)
(* Program constants.                                                      *)
(***************************************************************************)
FIRST_DEMON_ROUND == 5
FIRST_PLAYER_ROUND == 6
MAX_ATTR == 40
MAX_CARDS_IN_SET == 20
MAX_CARDS_IN_HAND == 5
ANY == -1
UNAVOIDABLE_ROUND == 51

MIN(x, y) == IF x < y THEN x ELSE y
MAX(x, y) == IF x > y THEN x ELSE y

(***************************************************************************)
(* Attributes.  The attribute types are the enumerators of attrTypes,      *)
(* written as strings without the ATTR_ prefix.                            *)
(***************************************************************************)
Attr(type, level) == [type |-> type, level |-> level]

DeadAttr == Attr("DEAD", 0)

\* HasAttr: the index (1-based) of the first attribute of the type, 0 if none.
RECURSIVE FindAttr(_, _, _)
FindAttr(attr, attrType, i) ==
    IF i > Len(attr) THEN 0
    ELSE IF attr[i].type = attrType THEN i
    ELSE FindAttr(attr, attrType, i + 1)

HasAttr(c, attrType) == FindAttr(c.attr, attrType, 1) # 0

\* The level HasAttr stores through pLevel (only meaningful when HasAttr holds).
AttrLevel(c, attrType) ==
    LET i == FindAttr(c.attr, attrType, 1)
    IN IF i = 0 THEN 0 ELSE c.attr[i].level

\* The capacity tests with > in the place of >=.
CardFullOver(c) == Len(c.attr) > MAX_ATTR

CardFull(c) == Len(c.attr) >= MAX_ATTR

\* AddAttr: appends, unless the card is full (then the program exits; the
\* callers record that, the card is left as it is).
AddAttr(c, attr) ==
    IF CardFull(c) THEN c ELSE [c EXCEPT !.attr = Append(@, attr)]

ShiftOut(attr, i) ==
    [j \in 1..(Len(attr) - 1) |-> IF j < i THEN attr[j] ELSE attr[j + 1]]

\* RemoveAttr's loop matching on the type alone: the first entry of the type
\* goes, whatever its level (the level comparison left out).
RECURSIVE RemoveAttrLoopAnyLevel(_, _, _, _)
RemoveAttrLoopAnyLevel(attr, i, attrType, level) ==
    IF i > Len(attr) THEN attr
    ELSE IF attr[i].type = attrType
         THEN IF level # ANY
              THEN ShiftOut(attr, i)
              ELSE RemoveAttrLoopAnyLevel(ShiftOut(attr, i), i, attrType, level)
         ELSE RemoveAttrLoopAnyLevel(attr, i + 1, attrType, level)

\* RemoveAttr's loop returning after the first removal whatever the level
\* (the test "level != -1" before the return left out).
RECURSIVE RemoveAttrLoopOnce(_, _, _, _)
RemoveAttrLoopOnce(attr, i, attrType, level) ==
    IF i > Len(attr) THEN attr
    ELSE IF attr[i].type = attrType /\ (attr[i].level = level \/ level = ANY)
         THEN ShiftOut(attr, i)
         ELSE RemoveAttrLoopOnce(attr, i + 1, attrType, level)

\* The loop of RemoveAttr from index i on.
RECURSIVE RemoveAttrLoop(_, _, _, _)
RemoveAttrLoop(attr, i, attrType, level) ==
    IF i > Len(attr) THEN attr
    ELSE IF attr[i].type = attrType /\ (attr[i].level = level \/ level = ANY)
         THEN IF level # ANY
              THEN ShiftOut(attr, i)
              ELSE RemoveAttrLoop(ShiftOut(attr, i), i, attrType, level)
         ELSE RemoveAttrLoop(attr, i + 1, attrType, level)

RemoveAttr(c, attrType, level) ==
    [c EXCEPT !.attr = RemoveAttrLoop(@, 1, attrType, level)]

(***************************************************************************)
(* Cards.  numAttr is Len(attr); baseAttr is the template's attribute      *)
(* array up to its last used entry (the rest of the C array is ATTR_NONE). *)
(***************************************************************************)
NonNone(baseAttr) == SelectSeq(baseAttr, LAMBDA a : a.type # "NONE")

\* InitCard's copy loop ending at the first NONE entry (a break in place of
\* the skip).
RECURSIVE InitAttrLoopBreak(_, _, _)
InitAttrLoopBreak(baseAttr, i, attr) ==
    IF i > Len(baseAttr) THEN attr
    ELSE IF baseAttr[i].type # "NONE"
         THEN InitAttrLoopBreak(baseAttr, i + 1, Append(attr, baseAttr[i]))
         ELSE attr

\* The copy loop of InitCard over baseAttr[i..], appending to attr.
RECURSIVE InitAttrLoop(_, _, _)
InitAttrLoop(baseAttr, i, attr) ==
    IF i > Len(baseAttr) THEN attr
    ELSE IF baseAttr[i].type # "NONE"
         THEN InitAttrLoop(baseAttr, i + 1, Append(attr, baseAttr[i]))
         ELSE InitAttrLoop(baseAttr, i + 1, attr)

InitCard(c) ==
    [c EXCEPT !.curTiming = c.timing,
              !.atk = c.baseAtk,
              !.curBaseAtk = c.baseAtk,
              !.hp = c.baseHp,
              !.maxHp = c.baseHp,
              !.attr = InitAttrLoop(c.baseAttr, 1, <<>>)]

\* A card type as readCardTypesFromFile leaves it in cardTypes[] (static storage:
\* the current-state section is zero until InitCard).
CardType(name, cost, timing, baseAtk, baseHp, baseAttr) ==
    [name |-> name, cost |-> cost, timing |-> timing, baseAtk |-> baseAtk,
     baseHp |-> baseHp, baseAttr |-> baseAttr,
     curTiming |-> 0, atk |-> 0, curBaseAtk |-> 0, hp |-> 0, maxHp |-> 0,
     attr |-> <<>>]

\* A zeroed Card (calloc'ed / static storage never written).
ZeroCard == CardType("", 0, 0, 0, 0, <<>>)

DeadCard ==
    [name |-> "Dead Card", cost |-> 0, timing |-> 0, baseAtk |-> 0, baseHp |-> 0,
     baseAttr |-> <<Attr("DEAD", 0), Attr("NONE", 0)>>,
     curTiming |-> 0, atk |-> 0, curBaseAtk |-> 0, hp |-> 0, maxHp |-> 0,
     attr |-> <<Attr("DEAD", 0)>>]

(***************************************************************************)
(* Card sets: a count and an array of MAX_CARDS_IN_SET cards.              *)
(***************************************************************************)
Slots == 0..(MAX_CARDS_IN_SET - 1)

EmptySet == [numCards |-> 0, cards |-> [i \in Slots |-> ZeroCard]]

SetFull(cs) == cs.numCards >= MAX_CARDS_IN_SET

RemoveCardFromSet(cs, n) ==
    LET num == cs.numCards - 1
    IN [numCards |-> num,
        cards |-> [i \in Slots |->
                     IF i >= n /\ i < num THEN cs.cards[i + 1] ELSE cs.cards[i]]]

AddCardToSet(cs, c) ==
    IF SetFull(cs) THEN cs
    ELSE [numCards |-> cs.numCards + 1,
          cards |-> [cs.cards EXCEPT ![cs.numCards] = c]]

\* AddCardToSetRandomly with the random slot r already drawn.
InsertCardAt(cs, r, c) ==
    IF SetFull(cs) THEN cs
    ELSE [numCards |-> cs.numCards + 1,
          cards |-> [i \in Slots |->
                       IF i = r THEN c
                       ELSE IF i > r /\ i <= cs.numCards THEN cs.cards[i - 1]
                       ELSE cs.cards[i]]]


(***************************************************************************)
(* The random stream: two 16-bit multiply-with-carry generators.  A seed   *)
(* word is kept as its two 16-bit halves so that no product leaves the     *)
(* 32-bit integer range; the arithmetic is that of unsigned int.           *)
(***************************************************************************)
Word(hi, lo) == [hi |-> hi, lo |-> lo]

\* m * (w & 65535) + (w >> 16), for m < 2^16: never wraps in 32 bits.
MWC(m, w) ==
    LET A == m * (w.lo \div 256)
        B == m * (w.lo % 256) + w.hi
        T == A + (B \div 256)
    IN Word(T \div 256, (T % 256) * 256 + (B % 256))

\* myRand's effect on the State.
myRand(s) ==
    [s EXCEPT !.seedW = MWC(18000, s.seedW), !.seedZ = MWC(36969, s.seedZ)]

\* Rnd's result: ((seedZ << 16) + seedW) % range over the updated seeds,
\* modulo 2^32.
Rnd(s, range) ==
    LET t == myRand(s)
        hi16 == (t.seedZ.lo + t.seedW.hi) % 65536
        lo16 == t.seedW.lo
    IN (((hi16 % range) * (65536 % range)) + (lo16 % range)) % range


\* C's integer division (truncation toward zero), for a positive divisor.
CDiv(a, b) == IF a >= 0 THEN a \div b ELSE -((-a) \div b)

(***************************************************************************)
(* The State.  A Card* into the field is the index of its slot.            *)
(* fatal records that the program has called exit(1).                      *)
(***************************************************************************)
RECURSIVE Call(_, _)

F(s, i) == s.field.cards[i]

SetF(s, i, c) == [s EXCEPT !.field.cards[i] = c]

Fatal(s) == [s EXCEPT !.fatal = TRUE]

\* AddAttr on the field card in slot i.
AddAttrF(s, i, attr) ==
    IF CardFull(F(s, i)) THEN Fatal(s) ELSE SetF(s, i, AddAttr(F(s, i), attr))

\* AddCardToSet on one of the State's four sets.
AddCardTo(s, which, c) ==
    IF SetFull(s[which]) THEN Fatal(s)
    ELSE [s EXCEPT ![which] = AddCardToSet(@, c)]

\* AddCardToSetRandomly on one of the State's four sets: the slot is drawn
\* before the set is found full.
AddCardToSetRandomly(s, which, c) ==
    LET r == Rnd(s, s[which].numCards + 1)
        s1 == myRand(s)
    IN IF SetFull(s1[which]) THEN Fatal(s1)
       ELSE [s1 EXCEPT ![which] = InsertCardAt(@, r, c)]

HpBuffs == {"TUNDRA_HP_BUFF", "FOREST_HP_BUFF", "MTN_HP_BUFF", "SWAMP_HP_BUFF"}
AtkBuffs == {"TUNDRA_ATK_BUFF", "FOREST_ATK_BUFF", "MTN_ATK_BUFF", "SWAMP_ATK_BUFF"}

\* The class ability (e.g. FOREST_HP) -> the buff it places (FOREST_HP_BUFF).
IsClassAbility(t) ==
    t \in {"TUNDRA_HP", "FOREST_HP", "MTN_HP", "SWAMP_HP",
           "TUNDRA_ATK", "FOREST_ATK", "MTN_ATK", "SWAMP_ATK"}

BuffOf(t) ==
    CASE t = "TUNDRA_HP" -> "TUNDRA_HP_BUFF" [] t = "FOREST_HP" -> "FOREST_HP_BUFF"
      [] t = "MTN_HP" -> "MTN_HP_BUFF" [] t = "SWAMP_HP" -> "SWAMP_HP_BUFF"
      [] t = "TUNDRA_ATK" -> "TUNDRA_ATK_BUFF" [] t = "FOREST_ATK" -> "FOREST_ATK_BUFF"
      [] t = "MTN_ATK" -> "MTN_ATK_BUFF" [] t = "SWAMP_ATK" -> "SWAMP_ATK_BUFF"

ClassOf(t) ==
    CASE t \in {"TUNDRA_HP", "TUNDRA_ATK"} -> "TUNDRA"
      [] t \in {"FOREST_HP", "FOREST_ATK"} -> "FOREST"
      [] t \in {"MTN_HP", "MTN_ATK"} -> "MTN"
      [] t \in {"SWAMP_HP", "SWAMP_ATK"} -> "SWAMP"

\* The body of RemoveBuffFromField with the attack buff taken from atk alone
\* (the line "c2->curBaseAtk -= level" left out).
RemoveBuffFromCardAtkOnly(c2, buff, level) ==
    LET r == RemoveAttr(c2, buff, level)
    IN IF buff \in HpBuffs
       THEN LET m == r.maxHp - level
            IN [r EXCEPT !.maxHp = m, !.hp = IF r.hp > m THEN m ELSE r.hp]
       ELSE IF buff \in AtkBuffs
       THEN [r EXCEPT !.atk = MAX(r.atk - level, 0)]
       ELSE r

\* The body of RemoveBuffFromField for one card c2 that holds the buff.
RemoveBuffFromCard(c2, buff, level) ==
    LET r == RemoveAttr(c2, buff, level)
    IN IF buff \in HpBuffs
       THEN LET m == r.maxHp - level
            IN [r EXCEPT !.maxHp = m, !.hp = IF r.hp > m THEN m ELSE r.hp]
       ELSE IF buff \in AtkBuffs
       THEN [r EXCEPT !.atk = MAX(r.atk - level, 0),
                      !.curBaseAtk = MAX(r.curBaseAtk - level, 0)]
       ELSE r

RECURSIVE RemoveBuffLoop(_, _, _, _, _)
RemoveBuffLoop(s, c, buff, level, i) ==
    IF i >= s.field.numCards THEN s
    ELSE IF c # i /\ HasAttr(F(s, i), buff)
         THEN RemoveBuffLoop(SetF(s, i, RemoveBuffFromCard(F(s, i), buff, level)),
                             c, buff, level, i + 1)
         ELSE RemoveBuffLoop(s, c, buff, level, i + 1)

RemoveBuffFromField(s, c, buff, level) == RemoveBuffLoop(s, c, buff, level, 0)

\* AddBuffToCard on a card that is not full.
BuffCard(target, buff, level) ==
    LET t == IF buff \in HpBuffs
             THEN [target EXCEPT !.hp = @ + level, !.maxHp = @ + level]
             ELSE IF buff \in AtkBuffs
             THEN [target EXCEPT !.atk = @ + level, !.curBaseAtk = @ + level]
             ELSE target
    IN AddAttr(t, Attr(buff, level))

\* AddBuffToCard with the target in field slot i.
AddBuffToCard(s, i, buff, level) ==
    IF CardFull(F(s, i)) THEN Fatal(s) ELSE SetF(s, i, BuffCard(F(s, i), buff, level))

RECURSIVE AddBuffLoop(_, _, _, _, _, _)
AddBuffLoop(s, c, class, buff, level, i) ==
    IF i >= s.field.numCards THEN s
    ELSE IF c # i /\ (class = "NONE" \/ HasAttr(F(s, i), class))
         THEN AddBuffLoop(Call("AddBuffToCard", <<s, i, buff, level>>), c, class, buff, level, i + 1)
         ELSE AddBuffLoop(s, c, class, buff, level, i + 1)

AddBuffToField(s, c, class, buff, level) == AddBuffLoop(s, c, class, buff, level, 0)

RECURSIVE RemoveDeadLoop(_, _)
RemoveDeadLoop(f, i) ==
    IF i >= f.numCards THEN f
    ELSE IF HasAttr(f.cards[i], "DEAD")
         THEN RemoveDeadLoop(RemoveCardFromSet(f, i), i)
         ELSE RemoveDeadLoop(f, i + 1)

RemoveDeadCards(s) == [s EXCEPT !.field = RemoveDeadLoop(@, 0)]

SimPrayer(s, heal) ==
    IF s.hp > 0 /\ s.hp < s.maxHp
    THEN [s EXCEPT !.hp = @ + MIN(heal, s.maxHp - s.hp)]
    ELSE s

HealOneCard(c, heal) ==
    IF HasAttr(c, "LACERATE_BUFF") \/ HasAttr(c, "IMMUNITY") THEN c
    ELSE IF c.hp > 0 /\ c.hp < c.maxHp
         THEN [c EXCEPT !.hp = @ + MIN(heal, c.maxHp - c.hp)]
         ELSE c

RECURSIVE RegenLoop(_, _, _)
RegenLoop(s, heal, i) ==
    IF i >= s.field.numCards THEN s
    ELSE RegenLoop(SetF(s, i, HealOneCard(F(s, i), heal)), heal, i + 1)

SimRegenerate(s, heal) == RegenLoop(s, heal, 0)

\* The loop of SimReincarnate taking the last card of the graveyard.
RECURSIVE ReincarnateLoopLast(_, _, _)
ReincarnateLoopLast(s, level, i) ==
    IF i >= level \/ s.grave.numCards = 0 \/ s.fatal THEN s
    ELSE LET last == s.grave.numCards - 1
             c2 == s.grave.cards[last]
             s1 == [s EXCEPT !.grave = RemoveCardFromSet(@, last)]
         IN ReincarnateLoopLast(AddCardTo(s1, "deck", c2), level, i + 1)

RECURSIVE ReincarnateLoop(_, _, _)
ReincarnateLoop(s, level, i) ==
    IF i >= level \/ s.grave.numCards = 0 \/ s.fatal THEN s
    ELSE LET c2 == s.grave.cards[0]
             s1 == [s EXCEPT !.grave = RemoveCardFromSet(@, 0)]
         IN ReincarnateLoop(AddCardTo(s1, "deck", c2), level, i + 1)

SimReincarnate(s, level) == ReincarnateLoop(s, level, 0)

Reanimatable(c) ==
    ~(HasAttr(c, "REANIMATE") \/ HasAttr(c, "D_REANIMATE") \/ HasAttr(c, "IMMUNITY"))

\* The index of the (r+1)-th slot from i on among the first num whose flag in
\* ok is set, -1 if there is none (the second loop of the Pick functions).
RECURSIVE NthCard(_, _, _, _)
NthCard(ok, num, i, r) ==
    IF i >= num THEN -1
    ELSE IF ~ok[i] THEN NthCard(ok, num, i + 1, r)
    ELSE IF r = 0 THEN i
    ELSE NthCard(ok, num, i + 1, r - 1)

CountCards(ok, num) == Cardinality({i \in 0..(num - 1) : ok[i]})

\* PickReanimatableCard: [s |-> the State after the draw, r |-> the index or -1].
PickReanimatableCard(s) ==
    LET ok == [i \in Slots |-> Reanimatable(s.grave.cards[i])]
        count == CountCards(ok, s.grave.numCards)
    IN IF s.grave.numCards = 0 \/ count = 0 THEN [s |-> s, r |-> -1]
       ELSE [s |-> myRand(s), r |-> NthCard(ok, s.grave.numCards, 0, Rnd(s, count))]

Alive(c) == c.hp > 0

\* PickAliveCardFromSet drawing its random number before it has counted.
PickAliveCardFromSetDrawFirst(s) ==
    LET ok == [i \in Slots |-> Alive(s.field.cards[i])]
        count == CountCards(ok, s.field.numCards)
    IN IF s.field.numCards = 0 \/ count = 0 THEN [s |-> myRand(s), r |-> -1]
       ELSE [s |-> myRand(s), r |-> NthCard(ok, s.field.numCards, 0, Rnd(s, count))]

\* PickAliveCardFromSet on the field.
PickAliveCardFromSet(s) ==
    LET ok == [i \in Slots |-> Alive(s.field.cards[i])]
        count == CountCards(ok, s.field.numCards)
    IN IF s.field.numCards = 0 \/ count = 0 THEN [s |-> s, r |-> -1]
       ELSE [s |-> myRand(s), r |-> NthCard(ok, s.field.numCards, 0, Rnd(s, count))]

(***************************************************************************)
(* Death, reanimation and entering the field: RemoveCard, SimReanimate and *)
(* CardPlayedToField call one another, through Call (defined further on).  *)
(***************************************************************************)
RECURSIVE RemoveCardLoop(_, _, _, _)

\* RemoveCard's loop with the Desperation abilities on both paths.
RemoveCardStepAlways(s, c, i, sendToGraveyard) ==
    LET a == F(s, c).attr[i]
    IN IF IsClassAbility(a.type)
       THEN Call("RemoveBuffFromField", <<s, c, BuffOf(a.type), a.level>>)
       ELSE IF a.type = "D_PRAYER" THEN Call("SimPrayer", <<s, a.level>>)
       ELSE IF a.type = "D_REANIMATE" THEN Call("SimReanimate", <<s>>)
       ELSE IF a.type = "D_REINCARNATE" THEN Call("SimReincarnate", <<s, a.level>>)
       ELSE s

\* One iteration of RemoveCard's loop: attribute i of the card now in slot c.
RemoveCardStep(s, c, i, sendToGraveyard) ==
    LET a == F(s, c).attr[i]
    IN IF IsClassAbility(a.type)
       THEN Call("RemoveBuffFromField", <<s, c, BuffOf(a.type), a.level>>)
       ELSE IF a.type = "D_PRAYER" /\ sendToGraveyard THEN Call("SimPrayer", <<s, a.level>>)
       ELSE IF a.type = "D_REANIMATE" /\ sendToGraveyard THEN Call("SimReanimate", <<s>>)
       ELSE IF a.type = "D_REINCARNATE" /\ sendToGraveyard
       THEN Call("SimReincarnate", <<s, a.level>>)
       ELSE s

RemoveCardLoop(s, c, i, sendToGraveyard) ==
    IF s.fatal \/ i > Len(F(s, c).attr) THEN s
    ELSE RemoveCardLoop(Call("RemoveCardStep", <<s, c, i, sendToGraveyard>>), c, i + 1,
                        sendToGraveyard)

\* The roll of one resurrection attribute (DIRT, then RESURRECTION) of the card
\* in slot c; sd is [s |-> State, dest |-> the destination chosen so far].
ResurrectRoll(sd, c, attrType) ==
    IF HasAttr(F(sd.s, c), attrType)
    THEN LET r == Rnd(sd.s, 100)
             s1 == myRand(sd.s)
         IN [s |-> s1,
             dest |-> IF r < AttrLevel(F(sd.s, c), attrType)
                      THEN IF s1.hand.numCards >= MAX_CARDS_IN_HAND
                           THEN "deck" ELSE "hand"
                      ELSE sd.dest]
    ELSE sd

\* The end of RemoveCard: the reset copy goes to its destination and the slot
\* is overwritten with the dead card.
RemoveCardFinish(s, c, sendToGraveyard) ==
    LET copy == InitCard(F(s, c))
        s2 == IF sendToGraveyard
              THEN LET sd == Call("ResurrectRoll", <<
                                 ResurrectRoll([s |-> s, dest |-> "grave"], c, "DIRT"),
                                 c, "RESURRECTION">>)
                   IN AddCardTo(sd.s, sd.dest, copy)
              ELSE AddCardToSetRandomly(s, "deck", copy)
    IN IF s2.fatal THEN s2 ELSE SetF(s2, c, DeadCard)

RemoveCard(s, c, sendToGraveyard) ==
    LET s1 == AddAttrF(SetF(s, c, [F(s, c) EXCEPT !.hp = 0]), c, DeadAttr)
        s2 == RemoveCardLoop(s1, c, 1, sendToGraveyard)
    IN IF s2.fatal THEN s2 ELSE Call("RemoveCardFinish", <<s2, c, sendToGraveyard>>)

SimReanimate(s) ==
    LET p == Call("PickReanimatableCard", <<s>>)
    IN IF p.r = -1 THEN s
       ELSE LET c2 == [p.s.grave.cards[p.r] EXCEPT !.curTiming = 0]
                s1 == [p.s EXCEPT !.grave = RemoveCardFromSet(@, p.r)]
                s2 == AddCardTo(s1, "field", c2)
                c == s2.field.numCards - 1
                s3 == AddAttrF(s2, c, Attr("REANIM_SICKNESS", 0))
            IN IF s2.fatal THEN s2
               ELSE IF s3.fatal THEN s3
               ELSE Call("CardPlayedToField", <<s3, c>>)

\* CardPlayedToField, part by part; every part reads the card in slot c anew.
PlayedObstinacy(s, c) ==
    IF HasAttr(F(s, c), "OBSTINACY")
    THEN [s EXCEPT !.hp = @ - AttrLevel(F(s, c), "OBSTINACY")]
    ELSE s

PlayedBackstab(s, c) ==
    IF HasAttr(F(s, c), "BACKSTAB")
    THEN LET level == AttrLevel(F(s, c), "BACKSTAB")
         IN AddAttrF(SetF(s, c, [F(s, c) EXCEPT !.atk = @ + level]), c,
                     Attr("BACKSTAB_BUFF", level))
    ELSE s

PlayedQuickStrike(s, c) ==
    LET s1 == IF HasAttr(F(s, c), "QS_PRAYER")
              THEN Call("SimPrayer", <<s, AttrLevel(F(s, c), "QS_PRAYER")>>) ELSE s
        s2 == IF HasAttr(F(s1, c), "QS_REGENERATE")
              THEN Call("SimRegenerate", <<s1, AttrLevel(F(s1, c), "QS_REGENERATE")>>) ELSE s1
    IN IF HasAttr(F(s2, c), "QS_REINCARNATE")
       THEN Call("SimReincarnate", <<s2, AttrLevel(F(s2, c), "QS_REINCARNATE")>>) ELSE s2

PlayedSacrifice(s, c) ==
    IF HasAttr(F(s, c), "SACRIFICE") /\ s.field.numCards > 1
    THEN LET level == AttrLevel(F(s, c), "SACRIFICE")
             r == Rnd(s, s.field.numCards - 1)
             s1 == myRand(s)
         IN IF HasAttr(F(s1, r), "IMMUNITY") THEN s1
            ELSE LET cc == F(s1, c)
                     atkIncrease == CDiv(cc.atk * level, 100)
                     hpIncrease == CDiv(cc.hp * level, 100)
                     s2 == SetF(s1, c, [cc EXCEPT !.atk = @ + atkIncrease,
                                                  !.curBaseAtk = @ + atkIncrease,
                                                  !.hp = @ + hpIncrease,
                                                  !.maxHp = @ + hpIncrease])
                     s3 == SetF(s2, r, [F(s2, r) EXCEPT !.hp = 0])
                     s4 == Call("RemoveCard", <<s3, r, TRUE>>)
                 IN IF s4.fatal THEN s4 ELSE Call("RemoveDeadCards", <<s4>>)
    ELSE s

CardClass(c) ==
    IF HasAttr(c, "TUNDRA") THEN "TUNDRA"
    ELSE IF HasAttr(c, "FOREST") THEN "FOREST"
    ELSE IF HasAttr(c, "MTN") THEN "MTN"
    ELSE IF HasAttr(c, "SWAMP") THEN "SWAMP"
    ELSE "NONE"

HpAbility(class) ==
    CASE class = "TUNDRA" -> "TUNDRA_HP" [] class = "FOREST" -> "FOREST_HP"
      [] class = "MTN" -> "MTN_HP" [] class = "SWAMP" -> "SWAMP_HP"

AtkAbility(class) ==
    CASE class = "TUNDRA" -> "TUNDRA_ATK" [] class = "FOREST" -> "FOREST_ATK"
      [] class = "MTN" -> "MTN_ATK" [] class = "SWAMP" -> "SWAMP_ATK"

\* The new card (slot c) receives the buffs of the cards already on the field.
RECURSIVE ReceiveBuffsLoop(_, _, _, _)
ReceiveBuffsLoop(s, c, class, i) ==
    IF s.fatal \/ i >= s.field.numCards THEN s
    ELSE IF c = i THEN ReceiveBuffsLoop(s, c, class, i + 1)
    ELSE LET attrHp == HpAbility(class)
             attrAtk == AtkAbility(class)
             s1 == IF HasAttr(F(s, i), attrHp)
                   THEN Call("AddBuffToCard", <<s, c, BuffOf(attrHp), AttrLevel(F(s, i), attrHp)>>)
                   ELSE s
             s2 == IF HasAttr(F(s1, i), attrAtk)
                   THEN Call("AddBuffToCard", <<s1, c, BuffOf(attrAtk),
                                      AttrLevel(F(s1, i), attrAtk)>>)
                   ELSE s1
         IN ReceiveBuffsLoop(s2, c, class, i + 1)

PlayedReceiveBuffs(s, c) ==
    LET class == CardClass(F(s, c))
    IN IF class = "NONE" THEN s ELSE ReceiveBuffsLoop(s, c, class, 0)

RECURSIVE HandleBuffsLoop(_, _, _)
HandleBuffsLoop(s, c, i) ==
    IF s.fatal \/ i > Len(F(s, c).attr) THEN s
    ELSE LET a == F(s, c).attr[i]
         IN HandleBuffsLoop(
                IF IsClassAbility(a.type)
                THEN Call("AddBuffToField", <<s, c, ClassOf(a.type), BuffOf(a.type), a.level>>)
                ELSE s,
                c, i + 1)

HandleBuffsFromCardPlayed(s, c) == HandleBuffsLoop(s, c, 1)

CardPlayedToField(s, c) ==
    LET s1 == Call("PlayedSacrifice", <<
                  Call("PlayedQuickStrike", <<Call("PlayedBackstab", <<Call("PlayedObstinacy", <<s, c>>), c>>), c>>), c>>)
    IN IF s1.fatal THEN s1
       ELSE Call("HandleBuffsFromCardPlayed", <<Call("PlayedReceiveBuffs", <<s1, c>>), c>>)

(***************************************************************************)
(* Selection helpers.                                                      *)
(***************************************************************************)
\* The first loop of PickNCards: the indices of the cards with hp > 0, in order.
RECURSIVE AliveIndices(_, _, _)
AliveIndices(cs, i, ret) ==
    IF i >= cs.numCards THEN ret
    ELSE AliveIndices(cs, i + 1,
                      IF cs.cards[i].hp > 0 THEN Append(ret, i) ELSE ret)

\* ret with the entries at C indices a and b exchanged (ret[a] is ret[a + 1] here).
Swap(ret, a, b) == [ret EXCEPT ![a + 1] = ret[b + 1], ![b + 1] = ret[a + 1]]

\* The random-pick loop of PickNCards; sr is [s |-> State, ret |-> array].
RECURSIVE PickLoop(_, _, _, _)
PickLoop(sr, n, numAlive, i) ==
    IF i >= n THEN sr
    ELSE LET r == Rnd(sr.s, numAlive - 1 - i)
         IN PickLoop([s |-> myRand(sr.s),
                      ret |-> IF r # 0 THEN Swap(sr.ret, i, i + r) ELSE sr.ret],
                     n, numAlive, i + 1)

\* The inner loop of the sort: acc is [lowest, lowestIndex].
RECURSIVE SortScan(_, _, _, _)
SortScan(ret, n, j, acc) ==
    IF j >= n THEN acc
    ELSE SortScan(ret, n, j + 1,
                  IF ret[j + 1] < acc.lowest
                  THEN [lowest |-> ret[j + 1], lowestIndex |-> j]
                  ELSE acc)

RECURSIVE SortLoop(_, _, _)
SortLoop(ret, n, i) ==
    IF i >= n - 1 THEN ret
    ELSE LET acc == SortScan(ret, n, i + 1, [lowest |-> ret[i + 1], lowestIndex |-> 0])
         IN SortLoop(IF ret[i + 1] # acc.lowest THEN Swap(ret, i, acc.lowestIndex)
                     ELSE ret,
                     n, i + 1)

\* PickNCards without its final sort: the picks in the order they were drawn.
PickNCardsUnsorted(s, cs, n0) ==
    LET alive == AliveIndices(cs, 0, <<>>)
        numAlive == Len(alive)
        n == MIN(n0, numAlive)
    IN IF n = numAlive THEN [s |-> s, n |-> n, ret |-> alive]
       ELSE LET sr == PickLoop([s |-> s, ret |-> alive], n, numAlive, 0)
            IN [s |-> sr.s, n |-> n, ret |-> sr.ret]

\* PickNCards: [s |-> State after the draws, n |-> the count returned,
\*              ret |-> the array; its first n entries are the picks].
PickNCards(s, cs, n0) ==
    LET alive == AliveIndices(cs, 0, <<>>)
        numAlive == Len(alive)
        n == MIN(n0, numAlive)
    IN IF n = numAlive THEN [s |-> s, n |-> n, ret |-> alive]
       ELSE LET sr == PickLoop([s |-> s, ret |-> alive], n, numAlive, 0)
            IN [s |-> sr.s, n |-> n, ret |-> SortLoop(sr.ret, n, 0)]

\* The first loop of FindLowestHpCard; acc is [lowest, numLowest, lowC].
RECURSIVE LowestScan(_, _, _, _)
LowestScan(cs, mostDamaged, i, acc) ==
    IF i >= cs.numCards THEN acc
    ELSE LET c == cs.cards[i]
             value == IF mostDamaged THEN c.maxHp - c.hp ELSE c.hp
             isLowest == c.hp > 0 /\ (acc.lowest = -1 \/
                             (IF mostDamaged THEN value > acc.lowest
                              ELSE value < acc.lowest))
         IN LowestScan(cs, mostDamaged, i + 1,
                IF isLowest THEN [lowest |-> value, numLowest |-> 1, lowC |-> i]
                ELSE IF value = acc.lowest THEN [acc EXCEPT !.numLowest = @ + 1]
                ELSE acc)

\* The second loop of FindLowestHpCard.  c is never re-assigned in that loop: it
\* is the last card the first loop looked at, and value is computed from it.
RECURSIVE LowestPick(_, _, _, _, _, _)
LowestPick(cs, value, lowest, lowC, r, i) ==
    IF i >= cs.numCards THEN lowC
    ELSE IF value = lowest
         THEN IF r = 0 THEN cs.numCards - 1
              ELSE LowestPick(cs, value, lowest, lowC, r - 1, i + 1)
         ELSE LowestPick(cs, value, lowest, lowC, r, i + 1)

\* FindLowestHpCard on the field: [s |-> State, c |-> the slot found or -1].
FindLowestHpCard(s, mostDamaged) ==
    LET cs == s.field
        acc == LowestScan(cs, mostDamaged, 0,
                          [lowest |-> -1, numLowest |-> 0, lowC |-> -1])
        last == cs.cards[cs.numCards - 1]
        value == IF mostDamaged THEN last.maxHp - last.hp ELSE last.hp
    IN IF acc.numLowest = 0 THEN [s |-> s, c |-> -1]
       ELSE IF acc.numLowest = 1 THEN [s |-> s, c |-> acc.lowC]
       ELSE IF ~mostDamaged
       THEN [s |-> s,
             c |-> LowestPick(cs, value, acc.lowest, acc.lowC, acc.numLowest - 1, 0)]
       ELSE [s |-> myRand(s),
             c |-> LowestPick(cs, value, acc.lowest, acc.lowC,
                              Rnd(s, acc.numLowest), 0)]

(***************************************************************************)
(* Damage.                                                                 *)
(***************************************************************************)
\* The guard loop of DamagePlayer with the guard taking the whole of what is
\* left, whatever its hit points (cardDmg = dmg in place of MIN(dmg, c->hp)).
RECURSIVE GuardLoopNoMin(_, _, _)
GuardLoopNoMin(s, dmg, i) ==
    IF s.fatal \/ i >= s.field.numCards THEN [s |-> s, dmg |-> dmg]
    ELSE LET c == F(s, i)
             cardDmg == dmg
         IN IF HasAttr(c, "GUARD") /\ cardDmg > 0
            THEN LET s1 == SetF(s, i, [c EXCEPT !.hp = @ - cardDmg])
                 IN GuardLoopNoMin(IF F(s1, i).hp <= 0
                                   THEN Call("RemoveCard", <<s1, i, TRUE>>) ELSE s1,
                                   dmg - cardDmg, i + 1)
            ELSE GuardLoopNoMin(s, dmg, i + 1)

\* The guard loop of DamagePlayer; the result is [s |-> State, dmg |-> what is
\* left for the player's hero].
RECURSIVE GuardLoop(_, _, _)
GuardLoop(s, dmg, i) ==
    IF s.fatal \/ i >= s.field.numCards THEN [s |-> s, dmg |-> dmg]
    ELSE LET c == F(s, i)
             cardDmg == MIN(dmg, c.hp)
         IN IF HasAttr(c, "GUARD") /\ cardDmg > 0
            THEN LET s1 == SetF(s, i, [c EXCEPT !.hp = @ - cardDmg])
                 IN GuardLoop(IF F(s1, i).hp <= 0 THEN Call("RemoveCard", <<s1, i, TRUE>>) ELSE s1,
                              dmg - cardDmg, i + 1)
            ELSE GuardLoop(s, dmg, i + 1)

DamagePlayer(s, dmg) ==
    LET g == GuardLoop(s, dmg, 0)
    IN [g.s EXCEPT !.hp = @ - g.dmg]

RECURSIVE ReduceLoop(_, _, _)
ReduceLoop(attr, dmg, i) ==
    IF i > Len(attr) THEN dmg
    ELSE LET a == attr[i]
         IN ReduceLoop(attr,
                IF a.type \in {"PARRY", "STONEWALL"} THEN MAX(dmg - a.level, 0)
                ELSE IF a.type \in {"ICE_SHIELD", "ARCTIC_FREEZE"}
                THEN (IF dmg > a.level THEN a.level ELSE dmg)
                ELSE dmg,
                i + 1)

ReducePhysDmg(c, dmg) == ReduceLoop(c.attr, dmg, 1)

SimDemonLacerate(s, c) ==
    IF ~HasAttr(F(s, c), "LACERATE_BUFF")
    THEN AddAttrF(s, c, Attr("LACERATE_BUFF", 0))
    ELSE s

\* DamageTrigger with the damage counted and the demon's hp left as it is.
DamageTriggerCountOnly(s, c, a) ==
    IF a.type \in {"CRAZE", "TSUNAMI"}
    THEN SetF(s, c, [F(s, c) EXCEPT !.atk = @ + a.level, !.curBaseAtk = @ + a.level])
    ELSE IF a.type \in {"COUNTERATTACK", "RETALIATION", "THUNDER_SHIELD", "FIRE_FORGE"}
    THEN [s EXCEPT !.dmgDone = @ + a.level]
    ELSE IF a.type = "WICKED_LEECH"
    THEN LET atkLoss == CDiv(s.demon.curBaseAtk * a.level, 100)
         IN SetF([s EXCEPT !.demon.curBaseAtk = @ - atkLoss, !.demon.atk = @ - atkLoss],
                 c, [F(s, c) EXCEPT !.atk = @ + atkLoss, !.curBaseAtk = @ + atkLoss])
    ELSE s

\* One iteration of the loop of DamageCard over the abilities triggered by damage.
DamageTrigger(s, c, a) ==
    IF a.type \in {"CRAZE", "TSUNAMI"}
    THEN SetF(s, c, [F(s, c) EXCEPT !.atk = @ + a.level, !.curBaseAtk = @ + a.level])
    ELSE IF a.type \in {"COUNTERATTACK", "RETALIATION", "THUNDER_SHIELD", "FIRE_FORGE"}
    THEN [s EXCEPT !.dmgDone = @ + a.level, !.demon.hp = @ - a.level]
    ELSE IF a.type = "WICKED_LEECH"
    THEN LET atkLoss == CDiv(s.demon.curBaseAtk * a.level, 100)
         IN SetF([s EXCEPT !.demon.curBaseAtk = @ - atkLoss, !.demon.atk = @ - atkLoss],
                 c, [F(s, c) EXCEPT !.atk = @ + atkLoss, !.curBaseAtk = @ + atkLoss])
    ELSE s

RECURSIVE DamageTriggerLoop(_, _, _)
DamageTriggerLoop(s, c, i) ==
    IF i > Len(F(s, c).attr) THEN s
    ELSE DamageTriggerLoop(Call("DamageTrigger", <<s, c, F(s, c).attr[i]>>), c, i + 1)

\* A dodge roll of DamageCard: [s |-> State after the roll, dodged |-> BOOLEAN].
DodgeRoll(s, c, attrType) ==
    IF HasAttr(F(s, c), attrType)
    THEN [s |-> myRand(s), dodged |-> Rnd(s, 100) < AttrLevel(F(s, c), attrType)]
    ELSE [s |-> s, dodged |-> FALSE]

\* DamageCard without the return on a damage of 0 after ReducePhysDmg.
DamageCardNoZeroTest(s, c, dmg0) ==
    LET d1 == Call("DodgeRoll", <<s, c, "NIMBLE_SOUL">>)
        d2 == Call("DodgeRoll", <<d1.s, c, "DODGE">>)
        dmg == ReducePhysDmg(F(d2.s, c), dmg0)
        s3 == SetF(d2.s, c, [F(d2.s, c) EXCEPT !.hp = MAX(@ - dmg, 0)])
        s4 == DamageTriggerLoop(s3, c, 1)
        s5 == IF F(s4, c).hp = 0 THEN Call("RemoveCard", <<s4, c, TRUE>>) ELSE s4
        s6 == IF F(s5, c).hp > 0 /\ HasAttr(s5.demon, "LACERATE")
              THEN Call("SimDemonLacerate", <<s5, c>>) ELSE s5
    IN IF d1.dodged THEN [s |-> d1.s, dmg |-> 0]
       ELSE IF d2.dodged THEN [s |-> d2.s, dmg |-> 0]
       ELSE IF s5.fatal THEN [s |-> s5, dmg |-> dmg]
       ELSE [s |-> s6, dmg |-> dmg]

\* DamageCard: [s |-> State, dmg |-> the damage done to the card].
DamageCard(s, c, dmg0) ==
    LET d1 == Call("DodgeRoll", <<s, c, "NIMBLE_SOUL">>)
        d2 == Call("DodgeRoll", <<d1.s, c, "DODGE">>)
        dmg == ReducePhysDmg(F(d2.s, c), dmg0)
        s3 == SetF(d2.s, c, [F(d2.s, c) EXCEPT !.hp = MAX(@ - dmg, 0)])
        s4 == DamageTriggerLoop(s3, c, 1)
        s5 == IF F(s4, c).hp = 0 THEN Call("RemoveCard", <<s4, c, TRUE>>) ELSE s4
        s6 == IF F(s5, c).hp > 0 /\ HasAttr(s5.demon, "LACERATE")
              THEN Call("SimDemonLacerate", <<s5, c>>) ELSE s5
    IN IF d1.dodged THEN [s |-> d1.s, dmg |-> 0]
       ELSE IF d2.dodged THEN [s |-> d2.s, dmg |-> 0]
       ELSE IF dmg <= 0 THEN [s |-> d2.s, dmg |-> 0]
       ELSE IF s5.fatal THEN [s |-> s5, dmg |-> dmg]
       ELSE [s |-> s6, dmg |-> dmg]

\* The chain attack on every living card, whatever its name.
RECURSIVE ChainLoopAnyName(_, _, _, _)
ChainLoopAnyName(s, cardName, newDmg, i) ==
    IF s.fatal \/ i >= s.field.numCards THEN s
    ELSE LET c2 == F(s, i)
         IN ChainLoopAnyName(IF ~HasAttr(c2, "DEAD") /\ c2.hp > 0
                             THEN Call("DamageCard", <<s, i, newDmg>>).s ELSE s,
                             cardName, newDmg, i + 1)

RECURSIVE ChainLoop(_, _, _, _)
ChainLoop(s, cardName, newDmg, i) ==
    IF s.fatal \/ i >= s.field.numCards THEN s
    ELSE LET c2 == F(s, i)
         IN ChainLoop(IF ~HasAttr(c2, "DEAD") /\ c2.hp > 0 /\ c2.name = cardName
                      THEN Call("DamageCard", <<s, i, newDmg>>).s ELSE s,
                      cardName, newDmg, i + 1)

\* SimDemonAttack hitting the card in slot 0 whenever the field has a card.
SimDemonAttackFront(s, dmg) ==
    IF s.field.numCards > 0
    THEN LET cardName == F(s, 0).name
             hit == Call("DamageCard", <<s, 0, dmg>>)
         IN IF hit.dmg > 0 /\ HasAttr(hit.s.demon, "CHAIN_ATTACK")
            THEN ChainLoop(hit.s, cardName,
                           CDiv(hit.dmg * AttrLevel(hit.s.demon, "CHAIN_ATTACK"), 100), 1)
            ELSE hit.s
    ELSE Call("DamagePlayer", <<s, dmg>>)

SimDemonAttack(s, dmg) ==
    IF s.field.numCards > 0 /\ ~HasAttr(F(s, 0), "DEAD")
    THEN LET cardName == F(s, 0).name
             hit == Call("DamageCard", <<s, 0, dmg>>)
         IN IF hit.dmg > 0 /\ HasAttr(hit.s.demon, "CHAIN_ATTACK")
            THEN ChainLoop(hit.s, cardName,
                           CDiv(hit.dmg * AttrLevel(hit.s.demon, "CHAIN_ATTACK"), 100), 1)
            ELSE hit.s
    ELSE Call("DamagePlayer", <<s, dmg>>)

(***************************************************************************)
(* The demon's round.                                                      *)
(***************************************************************************)
RECURSIVE TrapLoop(_, _, _, _)
TrapLoop(s, trapped, numTrapped, i) ==
    IF s.fatal \/ i >= numTrapped THEN s
    ELSE LET r == Rnd(s, 100)
             s1 == myRand(s)
             c == trapped[i + 1]
         IN TrapLoop(IF ~HasAttr(F(s1, c), "IMMUNITY") /\ ~HasAttr(F(s1, c), "EVASION")
                        /\ r < 65
                     THEN AddAttrF(s1, c, Attr("TRAP_BUFF", 0)) ELSE s1,
                     trapped, numTrapped, i + 1)

SimDemonTrap(s, numToTrap) ==
    LET p == Call("PickNCards", <<s, s.field, numToTrap>>)
    IN IF p.n = 0 THEN p.s ELSE TrapLoop(p.s, p.ret, p.n, 0)

RECURSIVE FireGodLoop(_, _, _)
FireGodLoop(s, a, j) ==
    IF s.fatal \/ j >= s.field.numCards THEN s
    ELSE LET c == F(s, j)
         IN FireGodLoop(IF c.hp > 0 /\ ~HasAttr(c, "IMMUNITY") /\ ~HasAttr(c, "FIRE_GOD")
                        THEN AddAttrF(s, j, a) ELSE s,
                        a, j + 1)

\* The loop of Toxic Clouds: an immune living card ends the loop (break).
RECURSIVE ToxicLoop(_, _, _)
ToxicLoop(s, a, j) ==
    IF s.fatal \/ j >= s.field.numCards THEN s
    ELSE LET c == F(s, j)
             dmg == MIN(a.level, c.hp)
             s1 == SetF(s, j, [c EXCEPT !.hp = @ - dmg])
         IN IF c.hp <= 0 THEN ToxicLoop(s, a, j + 1)
            ELSE IF HasAttr(c, "IMMUNITY") THEN s
            ELSE ToxicLoop(IF F(s1, j).hp <= 0 THEN Call("RemoveCard", <<s1, j, TRUE>>)
                           ELSE IF ~HasAttr(F(s1, j), "TOXIC_CLOUDS")
                           THEN AddAttrF(s1, j, a)
                           ELSE s1,
                           a, j + 1)

\* The hit of Snipe / Mana Corrupt on the field card in slot c.
DemonHit(s, c, dmg0) ==
    LET dmg == MIN(dmg0, F(s, c).hp)
        s1 == SetF(s, c, [F(s, c) EXCEPT !.hp = @ - dmg])
    IN IF F(s1, c).hp = 0 THEN Call("RemoveCard", <<s1, c, TRUE>>) ELSE s1

Resists(c) == HasAttr(c, "RESISTANCE") \/ HasAttr(c, "IMMUNITY")

\* One case of the switch over the demon's abilities.
DemonAbility(s, a) ==
    CASE a.type = "CURSE" -> Call("DamagePlayer", <<s, a.level>>)
      [] a.type = "DAMNATION" ->
            IF a.level * s.field.numCards > 0
            THEN Call("DamagePlayer", <<s, a.level * s.field.numCards>>) ELSE s
      [] a.type = "EXILE" ->
            IF s.field.numCards > 0 /\ F(s, 0).hp > 0 /\ ~Resists(F(s, 0))
            THEN Call("RemoveCard", <<s, 0, FALSE>>) ELSE s
      [] a.type = "SNIPE" ->
            LET p == Call("FindLowestHpCard", <<s, FALSE>>)
            IN IF p.c = -1 THEN p.s ELSE Call("DemonHit", <<p.s, p.c, a.level>>)
      [] a.type = "MANA_CORRUPT" ->
            LET p == Call("PickAliveCardFromSet", <<s>>)
            IN IF p.r = -1 THEN p.s
               ELSE Call("DemonHit", <<p.s, p.r,
                             IF HasAttr(F(p.s, p.r), "REFLECTION")
                                \/ HasAttr(F(p.s, p.r), "IMMUNITY")
                             THEN a.level * 3 ELSE a.level>>)
      [] a.type = "DESTROY" ->
            LET p == Call("PickAliveCardFromSet", <<s>>)
            IN IF p.r = -1 THEN p.s
               ELSE IF ~Resists(F(p.s, p.r))
               THEN Call("RemoveCard", <<SetF(p.s, p.r, [F(p.s, p.r) EXCEPT !.hp = 0]), p.r, TRUE>>)
               ELSE p.s
      [] a.type = "FIRE_GOD" -> FireGodLoop(s, a, 0)
      [] a.type = "TOXIC_CLOUDS" -> ToxicLoop(s, a, 0)
      [] a.type = "TRAP" -> Call("SimDemonTrap", <<s, a.level>>)
      [] OTHER -> s

RECURSIVE DemonAbilityLoop(_, _)
DemonAbilityLoop(s, i) ==
    IF s.fatal \/ i > Len(s.demon.attr) \/ s.hp <= 0 THEN s
    ELSE DemonAbilityLoop(Call("DemonAbility", <<s, s.demon.attr[i]>>), i + 1)

\* The unavoidable damage the player takes from round 51 on.
UnavoidableDamage(s) ==
    IF s.round >= UNAVOIDABLE_ROUND
    THEN [s EXCEPT !.hp = @ - MIN(CDiv(s.round - UNAVOIDABLE_ROUND, 2) * 60 + 80, s.hp)]
    ELSE s

DemonPhysical(s) ==
    IF s.hp > 0
    THEN LET level == AttrLevel(s.demon, "HOT_CHASE") * s.grave.numCards
         IN Call("SimDemonAttack", <<s, IF HasAttr(s.demon, "HOT_CHASE") /\ level > 0
                              THEN s.demon.atk + level ELSE s.demon.atk>>)
    ELSE s

SimDemon(s) ==
    IF s.round < FIRST_DEMON_ROUND THEN s
    ELSE LET s1 == Call("DemonPhysical", <<DemonAbilityLoop(Call("UnavoidableDamage", <<s>>), 1)>>)
         IN IF s1.fatal THEN s1 ELSE Call("RemoveDeadCards", <<s1>>)

(***************************************************************************)
(* The player's round.                                                     *)
(***************************************************************************)
\* DecreaseTimers that leaves the timers as they are.
DecreaseTimersKept(s) == s

DecreaseTimers(s) ==
    [s EXCEPT !.hand.cards =
        [i \in Slots |-> IF i < s.hand.numCards /\ @[i].curTiming > 0
                         THEN [@[i] EXCEPT !.curTiming = @ - 1] ELSE @[i]]]

\* PlayCardsFromDeck without the test of the full hand.
PlayCardsFromDeckAlways(s) ==
    IF s.deck.numCards > 0
    THEN LET s1 == AddCardTo(s, "hand", s.deck.cards[s.deck.numCards - 1])
         IN IF s1.fatal THEN s1
            ELSE [s1 EXCEPT !.deck = RemoveCardFromSet(@, s.deck.numCards - 1)]
    ELSE s

PlayCardsFromDeck(s) ==
    IF s.deck.numCards > 0 /\ s.hand.numCards >= MAX_CARDS_IN_HAND THEN s
    ELSE IF s.deck.numCards > 0
    THEN LET s1 == AddCardTo(s, "hand", s.deck.cards[s.deck.numCards - 1])
         IN IF s1.fatal THEN s1
            ELSE [s1 EXCEPT !.deck = RemoveCardFromSet(@, s.deck.numCards - 1)]
    ELSE s

RECURSIVE PlayHandLoop(_, _)
PlayHandLoop(s, i) ==
    IF s.fatal \/ i >= s.hand.numCards THEN s
    ELSE IF s.hand.cards[i].curTiming <= 0
    THEN LET c2 == s.hand.cards[i]
             s1 == AddCardTo([s EXCEPT !.hand = RemoveCardFromSet(@, i)], "field", c2)
         IN PlayHandLoop(IF s1.fatal THEN s1
                         ELSE Call("CardPlayedToField", <<s1, s1.field.numCards - 1>>),
                         i)
    ELSE PlayHandLoop(s, i + 1)

PlayCardsFromHand(s) == PlayHandLoop(s, 0)

\* The scan of SimAdvancedStrike; acc is [highTiming, highIndex].
RECURSIVE HighTimingScan(_, _, _)
HighTimingScan(h, i, acc) ==
    IF i >= h.numCards THEN acc
    ELSE HighTimingScan(h, i + 1,
                        IF h.cards[i].curTiming > acc.highTiming
                        THEN [highTiming |-> h.cards[i].curTiming, highIndex |-> i]
                        ELSE acc)

SimAdvancedStrike(s) ==
    LET acc == HighTimingScan(s.hand, 0, [highTiming |-> -1, highIndex |-> -1])
    IN IF acc.highIndex # -1 /\ s.hand.cards[acc.highIndex].curTiming > 0
       THEN [s EXCEPT !.hand.cards[acc.highIndex].curTiming = @ - 1]
       ELSE s

SimHealing(s, heal) ==
    LET p == Call("FindLowestHpCard", <<s, TRUE>>)
    IN IF p.c = -1 THEN p.s ELSE SetF(p.s, p.c, HealOneCard(F(p.s, p.c), heal))

\* The first loop of SimPlayerAttack; acc is [dmg, baseAtk].
RECURSIVE BaseAtkLoop(_, _, _)
BaseAtkLoop(attr, i, acc) ==
    IF i > Len(attr) THEN acc
    ELSE BaseAtkLoop(attr, i + 1,
                     IF attr[i].type = "REVIVAL"
                     THEN [dmg |-> acc.dmg + attr[i].level,
                           baseAtk |-> acc.baseAtk + attr[i].level]
                     ELSE acc)

\* The pre-attack loop of SimPlayerAttack; sd is [s |-> State, dmg |-> damage].
RECURSIVE PreAttackLoop(_, _, _)
PreAttackLoop(sd, baseAtk, i) ==
    IF i > Len(F(sd.s, 0).attr) THEN sd
    ELSE LET a == F(sd.s, 0).attr[i]
             s == sd.s
         IN PreAttackLoop(
                CASE a.type = "VENDETTA" ->
                        [sd EXCEPT !.dmg = IF s.grave.numCards * a.level > 0
                                           THEN @ + s.grave.numCards * a.level ELSE @]
                  [] a.type \in {"WARPATH", "LORE"} ->
                        [sd EXCEPT !.dmg = @ + CDiv(baseAtk * a.level, 100)]
                  [] a.type \in {"CONCENTRATE", "FROST_BITE"} ->
                        IF config.avgConcentrate
                        THEN [sd EXCEPT !.dmg = @ + CDiv(baseAtk * a.level, 200)]
                        ELSE [s |-> myRand(s),
                              dmg |-> IF Rnd(s, 100) < 50
                                      THEN sd.dmg + CDiv(baseAtk * a.level, 100)
                                      ELSE sd.dmg]
                  [] OTHER -> sd,
                baseAtk, i + 1)

\* The post-attack loop of SimPlayerAttack on the card in slot 0.
RECURSIVE PostAttackLoop(_, _, _)
PostAttackLoop(s, dmg, i) ==
    IF i > Len(F(s, 0).attr) THEN s
    ELSE LET a == F(s, 0).attr[i]
             c == F(s, 0)
             increase == MIN(CDiv(dmg * a.level, 100), c.maxHp - c.hp)
         IN PostAttackLoop(
                IF a.type \in {"BLOODSUCKER", "RED_VALLEY"}
                THEN IF c.hp > 0 /\ increase > 0
                     THEN SetF(s, 0, [c EXCEPT !.hp = @ + increase]) ELSE s
                ELSE IF a.type = "BLOODTHIRSTY"
                THEN SetF(s, 0, [c EXCEPT !.atk = @ + a.level, !.curBaseAtk = @ + a.level])
                ELSE s,
                dmg, i + 1)

\* The demon's counterattack or retaliation on the first cards of the field.
RECURSIVE CounterLoop(_, _, _, _)
CounterLoop(s, level, numCardsToCounter, i) ==
    IF s.fatal \/ i >= numCardsToCounter \/ s.field.numCards <= i THEN s
    ELSE LET c2 == F(s, i)
             roll == Call("DodgeRoll", <<s, i, "DEXTERITY">>)
             dmg == MIN(level, c2.hp)
             s1 == SetF(roll.s, i, [c2 EXCEPT !.hp = @ - dmg])
         IN IF c2.hp <= 0 THEN CounterLoop(s, level, numCardsToCounter, i + 1)
            ELSE IF roll.dodged THEN CounterLoop(roll.s, level, numCardsToCounter, i + 1)
            ELSE CounterLoop(IF F(s1, i).hp <= 0 THEN Call("RemoveCard", <<s1, i, TRUE>>) ELSE s1,
                             level, numCardsToCounter, i + 1)

DemonCounter(s) ==
    IF HasAttr(s.demon, "RETALIATION")
    THEN CounterLoop(s, AttrLevel(s.demon, "RETALIATION"), 2, 0)
    ELSE IF HasAttr(s.demon, "COUNTERATTACK")
    THEN CounterLoop(s, AttrLevel(s.demon, "COUNTERATTACK"), 1, 0)
    ELSE s

WickedLeech(s) ==
    IF HasAttr(s.demon, "WICKED_LEECH")
    THEN LET c == F(s, 0)
             atkLoss == CDiv(c.curBaseAtk * AttrLevel(s.demon, "WICKED_LEECH"), 100)
         IN SetF([s EXCEPT !.demon.curBaseAtk = @ + atkLoss, !.demon.atk = @ + atkLoss],
                 0, [c EXCEPT !.atk = MAX(@ - atkLoss, 0), !.curBaseAtk = @ - atkLoss])
    ELSE s

SimPlayerAttack(s) ==
    IF s.field.numCards = 0 \/ s.round < FIRST_PLAYER_ROUND THEN s
    ELSE LET c == F(s, 0)
             b == BaseAtkLoop(c.attr, 1, [dmg |-> c.atk, baseAtk |-> c.curBaseAtk])
             pre == PreAttackLoop([s |-> s, dmg |-> b.dmg], b.baseAtk, 1)
             dmg == ReducePhysDmg(pre.s.demon, pre.dmg)
             s1 == [pre.s EXCEPT !.dmgDone = @ + dmg, !.demon.hp = @ - dmg]
             s2 == Call("DemonCounter", <<PostAttackLoop(s1, dmg, 1)>>)
         IN IF dmg <= 0 THEN s1
            ELSE IF s2.fatal \/ F(s2, 0).hp <= 0 THEN s2
            ELSE Call("WickedLeech", <<s2>>)

\* One case of the switch of SimPlayerCard over the abilities used before the
\* attack: attribute a of the card in slot c.
PlayerAbility(s, c, a) ==
    CASE a.type = "ADVANCED_STRIKE" -> Call("SimAdvancedStrike", <<s>>)
      [] a.type = "REINCARNATE" -> Call("SimReincarnate", <<s, a.level>>)
      [] a.type = "REANIMATE" -> Call("SimReanimate", <<s>>)
      [] a.type = "REGENERATE" -> Call("SimRegenerate", <<s, a.level>>)
      [] a.type = "HEALING" -> Call("SimHealing", <<s, a.level>>)
      [] a.type = "PRAYER" -> Call("SimPrayer", <<s, a.level>>)
      [] a.type \in {"SNIPE", "MANA_CORRUPT", "FLYING_STONE"} ->
            IF s.round >= FIRST_PLAYER_ROUND
            THEN LET level == IF a.type = "MANA_CORRUPT" THEN a.level * 3 ELSE a.level
                 IN [s EXCEPT !.dmgDone = @ + level, !.demon.hp = @ - level]
            ELSE s
      [] a.type = "MANIA" ->
            LET cc == F(s, c)
                s1 == SetF(s, c, [cc EXCEPT !.hp = MAX(@ - a.level, 0),
                                            !.atk = @ + a.level,
                                            !.curBaseAtk = @ + a.level])
            IN IF F(s1, c).hp = 0 THEN Call("RemoveCard", <<s1, c, TRUE>>) ELSE s1
      [] OTHER -> s

RECURSIVE PlayerAbilityLoop(_, _, _)
PlayerAbilityLoop(s, c, i) ==
    IF s.fatal \/ i > Len(F(s, c).attr) THEN s
    ELSE PlayerAbilityLoop(Call("PlayerAbility", <<s, c, F(s, c).attr[i]>>), c, i + 1)

\* The loop over the damaging statuses (after SkipAttack).
RECURSIVE StatusLoop(_, _, _)
StatusLoop(s, c, i) ==
    IF s.fatal \/ i > Len(F(s, c).attr) THEN s
    ELSE LET a == F(s, c).attr[i]
             cc == F(s, c)
             level == MIN(a.level, cc.hp)
             hit == [cc EXCEPT !.hp = @ - level]
             s1 == SetF(s, c, IF a.type = "TOXIC_CLOUDS"
                              THEN RemoveAttr(hit, "TOXIC_CLOUDS", ANY) ELSE hit)
         IN StatusLoop(IF a.type \in {"FIRE_GOD", "TOXIC_CLOUDS"} /\ level >= 0
                       THEN IF F(s1, c).hp <= 0 THEN Call("RemoveCard", <<s1, c, TRUE>>) ELSE s1
                       ELSE s,
                       c, i + 1)

\* The loop over the healing abilities at the end of the card's turn.
RECURSIVE RejuvenateLoop(_, _, _)
RejuvenateLoop(cc, trapped, i) ==
    IF i > Len(cc.attr) THEN cc
    ELSE LET level == MIN(cc.attr[i].level, cc.maxHp - cc.hp)
         IN RejuvenateLoop(
                IF cc.attr[i].type \in {"REJUVENATE", "BLOOD_STONE"} /\ ~trapped
                   /\ ~HasAttr(cc, "LACERATE_BUFF") /\ level > 0
                THEN [cc EXCEPT !.hp = @ + level] ELSE cc,
                trapped, i + 1)

\* SimPlayerCard from the label SkipAttack on.
SkipAttack(s, c, trapped) ==
    LET s1 == StatusLoop(s, c, 1)
    IN IF s1.fatal \/ F(s1, c).hp <= 0 THEN s1
       ELSE SetF(s1, c, RejuvenateLoop(F(s1, c), trapped, 1))

SimPlayerCard(s, cardNum) ==
    LET c == F(s, cardNum)
    IN IF c.hp <= 0 THEN s
       ELSE IF HasAttr(c, "REANIM_SICKNESS")
       THEN SetF(s, cardNum, RemoveAttr(c, "REANIM_SICKNESS", ANY))
       ELSE IF HasAttr(c, "TRAP_BUFF")
       THEN Call("SkipAttack", <<SetF(s, cardNum, RemoveAttr(c, "TRAP_BUFF", ANY)), cardNum, TRUE>>)
       ELSE LET s1 == PlayerAbilityLoop(s, cardNum, 1)
                s2 == IF ~s1.fatal /\ cardNum = 0 /\ F(s1, 0).hp > 0
                      THEN Call("SimPlayerAttack", <<s1>>) ELSE s1
            IN IF s2.fatal \/ F(s2, cardNum).hp <= 0 THEN s2
               ELSE Call("SkipAttack", <<s2, cardNum, FALSE>>)

(***************************************************************************)
(* Runes.  A rune is [name, attr, maxCharges, chargesUsed, usedThisRound]. *)
(***************************************************************************)
Rune(name, type, level, maxCharges) ==
    [name |-> name, attr |-> Attr(type, level), maxCharges |-> maxCharges,
     chargesUsed |-> 0, usedThisRound |-> 0]

countCardsWithAttr(cs, attr) ==
    Cardinality({i \in 0..(cs.numCards - 1) : HasAttr(cs.cards[i], attr)})

RECURSIVE addRuneBuffLoop(_, _, _)
addRuneBuffLoop(s, attr, i) ==
    IF s.fatal \/ i >= s.field.numCards THEN s
    ELSE addRuneBuffLoop(AddAttrF(s, i, attr), attr, i + 1)

addRuneBuffToField(s, attr) == addRuneBuffLoop(s, attr, 0)

removeRuneBuffFromField(s, attr) ==
    [s EXCEPT !.field.cards =
        [i \in Slots |-> IF i < s.field.numCards THEN RemoveAttr(@[i], attr, ANY)
                         ELSE @[i]]]

\* The runes whose buff lasts one round and is taken off by name.
RoundBuffRunes ==
    {"ARCTIC_FREEZE", "BLOOD_STONE", "FROST_BITE", "RED_VALLEY", "LORE", "REVIVAL",
     "FIRE_FORGE", "STONEWALL", "THUNDER_SHIELD", "NIMBLE_SOUL", "DIRT",
     "FLYING_STONE", "TSUNAMI"}

\* The end of Spring Breeze on one card.
SpringBreezeEnd(c, level) ==
    IF ~HasAttr(c, "SPRING_BREEZE") THEN c
    ELSE LET r == RemoveAttr(c, "SPRING_BREEZE", ANY)
             m == r.maxHp - level
         IN [r EXCEPT !.maxHp = m, !.hp = IF r.hp > m THEN m ELSE r.hp]

RECURSIVE DeactivateLoop(_, _)
DeactivateLoop(s, i) ==
    IF i > s.numRunes THEN s
    ELSE LET rune == s.runes[i]
             s1 == [s EXCEPT !.runes[i].usedThisRound = 0]
         IN DeactivateLoop(
                IF rune.usedThisRound = 0 THEN s
                ELSE IF rune.attr.type \in RoundBuffRunes
                THEN Call("removeRuneBuffFromField", <<s1, rune.attr.type>>)
                ELSE IF rune.attr.type = "SPRING_BREEZE"
                THEN [s1 EXCEPT !.field.cards =
                        [j \in Slots |-> IF j < s.field.numCards
                                         THEN SpringBreezeEnd(@[j], rune.attr.level)
                                         ELSE @[j]]]
                ELSE s1,
                i + 1)

\* The activation test of a rune whose buff lasts one round.
RuneCondition(s, type) ==
    CASE type = "ARCTIC_FREEZE" -> countCardsWithAttr(s.grave, "TUNDRA") > 2
      [] type = "BLOOD_STONE" -> countCardsWithAttr(s.field, "MTN") > 1
      [] type = "FROST_BITE" -> countCardsWithAttr(s.grave, "TUNDRA") > 3
      [] type = "RED_VALLEY" -> countCardsWithAttr(s.field, "SWAMP") > 1
      [] type = "LORE" -> countCardsWithAttr(s.grave, "MTN") > 2
      [] type = "REVIVAL" -> countCardsWithAttr(s.grave, "FOREST") > 1
      [] type = "FIRE_FORGE" -> countCardsWithAttr(s.grave, "MTN") > 1
      [] type = "STONEWALL" -> countCardsWithAttr(s.field, "SWAMP") > 1
      [] type = "THUNDER_SHIELD" -> countCardsWithAttr(s.field, "FOREST") > 1
      [] type = "NIMBLE_SOUL" -> countCardsWithAttr(s.grave, "FOREST") > 2
      [] type = "DIRT" -> countCardsWithAttr(s.grave, "SWAMP") > 1
      [] type = "FLYING_STONE" -> countCardsWithAttr(s.grave, "SWAMP") > 2
      [] type = "TSUNAMI" -> s.hp < CDiv(s.maxHp, 2)
      [] type = "SPRING_BREEZE" ->
            countCardsWithAttr(s.hand, "FOREST") > 1 /\ s.field.numCards > 0
      [] OTHER -> FALSE

\* One case of the activation switch for rune i.
ActivateRune(s, i) ==
    LET rune == s.runes[i]
        type == rune.attr.type
        used == [s EXCEPT !.runes[i].chargesUsed = @ + 1]
        buffed == Call("addRuneBuffToField", <<[used EXCEPT !.runes[i].usedThisRound = 1],
                                     rune.attr>>)
    IN CASE type = "CLEAR_SPRING" ->
              IF countCardsWithAttr(s.field, "TUNDRA") > 1
                 /\ \E j \in 0..(s.field.numCards - 1) :
                        F(s, j).hp # 0 /\ F(s, j).hp < F(s, j).maxHp
              THEN Call("SimRegenerate", <<used, rune.attr.level>>) ELSE s
         [] type = "LEAF" ->
              IF s.round > 14
              THEN [used EXCEPT !.dmgDone = @ + rune.attr.level,
                                !.demon.hp = @ - rune.attr.level]
              ELSE s
         [] type = "SPRING_BREEZE" ->
              IF RuneCondition(s, type)
              THEN IF buffed.fatal THEN buffed
                   ELSE [buffed EXCEPT !.field.cards =
                           [j \in Slots |->
                              IF j < s.field.numCards
                              THEN [@[j] EXCEPT !.hp = @ + rune.attr.level,
                                                !.maxHp = @ + rune.attr.level]
                              ELSE @[j]]]
              ELSE s
         [] OTHER -> IF RuneCondition(s, type) THEN buffed ELSE s

\* The activation loop without the test of the charges.
RECURSIVE ActivateLoopNoLimit(_, _)
ActivateLoopNoLimit(s, i) ==
    IF s.fatal \/ i > s.numRunes THEN s
    ELSE ActivateLoopNoLimit(Call("ActivateRune", <<s, i>>), i + 1)

RECURSIVE ActivateLoop(_, _)
ActivateLoop(s, i) ==
    IF s.fatal \/ i > s.numRunes THEN s
    ELSE ActivateLoop(IF s.runes[i].chargesUsed >= s.runes[i].maxCharges THEN s
                      ELSE Call("ActivateRune", <<s, i>>),
                      i + 1)

\* HandleRunes with its two loops in the other order.
HandleRunesActivateFirst(s) == DeactivateLoop(ActivateLoop(s, 1), 1)

HandleRunes(s) == ActivateLoop(DeactivateLoop(s, 1), 1)

RECURSIVE PlayerCardsLoop(_, _)
PlayerCardsLoop(s, i) ==
    IF s.fatal \/ i >= s.field.numCards THEN s
    ELSE PlayerCardsLoop(Call("SimPlayerCard", <<s, i>>), i + 1)

\* The backstab buff taken off with the attack left as it is.
RemoveBackstabKeepAtk(c) ==
    IF HasAttr(c, "BACKSTAB_BUFF") THEN RemoveAttr(c, "BACKSTAB_BUFF", ANY) ELSE c

\* The loop of SimPlayer that takes the backstab buffs off.
RemoveBackstab(c) ==
    IF HasAttr(c, "BACKSTAB_BUFF")
    THEN [RemoveAttr(c, "BACKSTAB_BUFF", ANY) EXCEPT
             !.atk = @ - AttrLevel(c, "BACKSTAB_BUFF")]
    ELSE c

\* The end of SimPlayer, after the loop over the cards.
SimPlayerEnd(s1) ==
    LET s2 == [s1 EXCEPT !.field.cards =
                 [i \in Slots |-> IF i < s1.field.numCards THEN RemoveBackstab(@[i])
                                  ELSE @[i]]]
    IN IF s1.fatal THEN s1 ELSE Call("RemoveDeadCards", <<s2>>)

SimPlayer(s) == SimPlayerEnd(PlayerCardsLoop(Call("HandleRunes", <<s>>), 0))

(***************************************************************************)
(* Starting a battle.                                                      *)
(***************************************************************************)
RECURSIVE ShuffleLoop(_, _)
ShuffleLoop(s, i) ==
    IF i >= s.deck.numCards - 1 THEN s
    ELSE LET r == Rnd(s, s.deck.numCards - i)
             s1 == myRand(s)
             d == s1.deck.cards
         IN ShuffleLoop(IF r # 0
                        THEN [s1 EXCEPT !.deck.cards =
                                 [d EXCEPT ![i] = d[i + r], ![i + r] = d[i]]]
                        ELSE s1,
                        i + 1)

\* ShuffleSet on the deck.
ShuffleSet(s) == ShuffleLoop(s, 0)

\* The deck loop of InitDefaultState over theDeck[i..].
RECURSIVE InitDeckLoop(_, _, _)
InitDeckLoop(theDeck, i, deck) ==
    IF i > Len(theDeck) THEN deck
    ELSE InitDeckLoop(theDeck, i + 1, AddCardToSet(deck, InitCard(theDeck[i])))

\* A State in zeroed storage (static, or calloc'ed by AllocateStates).
ZeroState ==
    [dmgDone |-> 0, hp |-> 0, maxHp |-> 0, round |-> 0, numRunes |-> 0,
     demon |-> ZeroCard, deck |-> EmptySet, hand |-> EmptySet, field |-> EmptySet,
     grave |-> EmptySet, runes |-> <<>>, seedW |-> Word(0, 0), seedZ |-> Word(0, 0),
     fatal |-> FALSE]

\* The specifications of one battle, one card, one pick and one field leave
\* the program's threads out.
NoProgram ==
    /\ defaultState = ZeroState
    /\ states = <<>>
    /\ tasks = <<>>
    /\ results = <<>>
    /\ worker = <<>>
    /\ main = <<>>

\* InitDefaultState on the zeroed defaultState, for the globals in cfg.
InitDefaultState(cfg) ==
    [ZeroState EXCEPT
        !.hp = cfg.initialHp,
        !.maxHp = cfg.initialHp,
        !.round = 1,
        !.demon = InitCard(cfg.theDemon),
        !.deck = InitDeckLoop(cfg.theDeck, 1, EmptySet),
        !.runes = [i \in 1..Len(cfg.theRunes) |->
                     [cfg.theRunes[i] EXCEPT !.chargesUsed = 0, !.usedThisRound = 0]],
        !.numRunes = Len(cfg.theRunes)]

\* InitState with the seeds copied from the default state like the rest.
InitStateAll(s, default) == default

\* InitState with the seeds of the program in one place, the State of thread 0.
InitStateOneSeed(s, default) ==
    [default EXCEPT !.seedW = states[0].seedW, !.seedZ = states[0].seedZ]

\* InitState: the default state with the worker's seeds kept.
InitState(s, default) ==
    [default EXCEPT !.seedW = s.seedW, !.seedZ = s.seedZ]

(***************************************************************************)
(* Simulate.                                                               *)
(***************************************************************************)
\* The loop condition with the graveyard among the sets it looks at.
LoopConditionFour(s, maxRounds) ==
    /\ s.hp > 0
    /\ (s.field.numCards > 0 \/ s.deck.numCards > 0 \/ s.hand.numCards > 0
           \/ s.grave.numCards > 0)
    /\ s.round <= maxRounds

\* The loop condition with < in place of <= in the test of the round.
LoopConditionStrict(s, maxRounds) ==
    /\ s.hp > 0
    /\ (s.field.numCards > 0 \/ s.deck.numCards > 0 \/ s.hand.numCards > 0)
    /\ s.round < maxRounds

\* The condition of the while loop.
LoopCondition(s, maxRounds) ==
    /\ s.hp > 0
    /\ (s.field.numCards > 0 \/ s.deck.numCards > 0 \/ s.hand.numCards > 0)
    /\ s.round <= maxRounds

\* The player's branch of the loop body up to the test made because of obstinacy.
PlayCards(s) ==
    LET s1 == Call("PlayCardsFromDeck", <<Call("DecreaseTimers", <<s>>)>>)
    IN IF s1.fatal THEN s1 ELSE Call("PlayCardsFromHand", <<s1>>)

\* The test of the round's parity turned round: the player in the odd rounds.
IsPlayerRoundOdd(s) == s.round % 2 = 1

IsPlayerRound(s) == s.round % 2 = 0

\* Simulate without the round-- after the loop.
LastRoundKept(s) == s

\* The statement after the loop.
LastRound(s) == [s EXCEPT !.round = @ - 1]

\* The while loop of Simulate from the State s; hit is *hitRoundX.  The loop
\* stops where the program has exited.
RECURSIVE SimulateLoop(_, _, _)
SimulateLoop(s, localRoundX, hit) ==
    IF s.fatal \/ ~LoopCondition(s, config.maxRounds)
    THEN [s |-> s, hitRoundX |-> hit]
    ELSE LET h == hit \/ s.round = localRoundX
         IN IF IsPlayerRound(s)
            THEN LET s1 == Call("PlayCards", <<s>>)
                     s2 == Call("SimPlayer", <<s1>>)
                 IN IF s1.fatal \/ s1.hp <= 0 THEN [s |-> s1, hitRoundX |-> h]
                    ELSE IF s2.fatal THEN [s |-> s2, hitRoundX |-> h]
                    ELSE SimulateLoop([s2 EXCEPT !.round = @ + 1], localRoundX, h)
            ELSE LET s1 == Call("SimDemon", <<Call("DecreaseTimers", <<s>>)>>)
                 IN IF s1.fatal THEN [s |-> s1, hitRoundX |-> h]
                    ELSE SimulateLoop([s1 EXCEPT !.round = @ + 1], localRoundX, h)

\* Simulate(state, localRoundX, &hitRoundX): [s |-> State, hitRoundX |-> bool].
Simulate(s, localRoundX, hit) ==
    LET r == SimulateLoop(s, localRoundX, hit)
    IN IF r.s.fatal THEN r ELSE [r EXCEPT !.s = LastRound(r.s)]

(***************************************************************************)
(* The calls of the engine's functions.  Call(f, a) is the C call          *)
(* f(a[1], ..., a[n]): the functions of the engine call one another        *)
(* through it.                                                             *)
(***************************************************************************)
Call(f, a) ==
    CASE f = "RemoveBuffFromField" -> RemoveBuffFromField(a[1], a[2], a[3], a[4])
      [] f = "AddBuffToCard" -> AddBuffToCard(a[1], a[2], a[3], a[4])
      [] f = "AddBuffToField" -> AddBuffToField(a[1], a[2], a[3], a[4], a[5])
      [] f = "RemoveDeadCards" -> RemoveDeadCards(a[1])
      [] f = "SimPrayer" -> SimPrayer(a[1], a[2])
      [] f = "SimRegenerate" -> SimRegenerate(a[1], a[2])
      [] f = "SimReincarnate" -> SimReincarnate(a[1], a[2])
      [] f = "PickReanimatableCard" -> PickReanimatableCard(a[1])
      [] f = "PickAliveCardFromSet" -> PickAliveCardFromSet(a[1])
      [] f = "RemoveCardStep" -> RemoveCardStep(a[1], a[2], a[3], a[4])
      [] f = "ResurrectRoll" -> ResurrectRoll(a[1], a[2], a[3])
      [] f = "RemoveCardFinish" -> RemoveCardFinish(a[1], a[2], a[3])
      [] f = "RemoveCard" -> RemoveCard(a[1], a[2], a[3])
      [] f = "SimReanimate" -> SimReanimate(a[1])
      [] f = "PlayedObstinacy" -> PlayedObstinacy(a[1], a[2])
      [] f = "PlayedBackstab" -> PlayedBackstab(a[1], a[2])
      [] f = "PlayedQuickStrike" -> PlayedQuickStrike(a[1], a[2])
      [] f = "PlayedSacrifice" -> PlayedSacrifice(a[1], a[2])
      [] f = "PlayedReceiveBuffs" -> PlayedReceiveBuffs(a[1], a[2])
      [] f = "HandleBuffsFromCardPlayed" -> HandleBuffsFromCardPlayed(a[1], a[2])
      [] f = "CardPlayedToField" -> CardPlayedToField(a[1], a[2])
      [] f = "PickNCards" -> PickNCards(a[1], a[2], a[3])
      [] f = "FindLowestHpCard" -> FindLowestHpCard(a[1], a[2])
      [] f = "DamagePlayer" -> DamagePlayer(a[1], a[2])
      [] f = "SimDemonLacerate" -> SimDemonLacerate(a[1], a[2])
      [] f = "DamageTrigger" -> DamageTrigger(a[1], a[2], a[3])
      [] f = "DodgeRoll" -> DodgeRoll(a[1], a[2], a[3])
      [] f = "DamageCard" -> DamageCard(a[1], a[2], a[3])
      [] f = "SimDemonAttack" -> SimDemonAttack(a[1], a[2])
      [] f = "SimDemonTrap" -> SimDemonTrap(a[1], a[2])
      [] f = "DemonHit" -> DemonHit(a[1], a[2], a[3])
      [] f = "DemonAbility" -> DemonAbility(a[1], a[2])
      [] f = "UnavoidableDamage" -> UnavoidableDamage(a[1])
      [] f = "DemonPhysical" -> DemonPhysical(a[1])
      [] f = "SimDemon" -> SimDemon(a[1])
      [] f = "DecreaseTimers" -> DecreaseTimers(a[1])
      [] f = "PlayCardsFromDeck" -> PlayCardsFromDeck(a[1])
      [] f = "PlayCardsFromHand" -> PlayCardsFromHand(a[1])
      [] f = "SimAdvancedStrike" -> SimAdvancedStrike(a[1])
      [] f = "SimHealing" -> SimHealing(a[1], a[2])
      [] f = "DemonCounter" -> DemonCounter(a[1])
      [] f = "WickedLeech" -> WickedLeech(a[1])
      [] f = "SimPlayerAttack" -> SimPlayerAttack(a[1])
      [] f = "PlayerAbility" -> PlayerAbility(a[1], a[2], a[3])
      [] f = "SkipAttack" -> SkipAttack(a[1], a[2], a[3])
      [] f = "SimPlayerCard" -> SimPlayerCard(a[1], a[2])
      [] f = "addRuneBuffToField" -> addRuneBuffToField(a[1], a[2])
      [] f = "removeRuneBuffFromField" -> removeRuneBuffFromField(a[1], a[2])
      [] f = "ActivateRune" -> ActivateRune(a[1], a[2])
      [] f = "HandleRunes" -> HandleRunes(a[1])
      [] f = "SimPlayer" -> SimPlayer(a[1])
      [] f = "ShuffleSet" -> ShuffleSet(a[1])
      [] f = "PlayCards" -> PlayCards(a[1])
      [] f = "Simulate" -> Simulate(a[1], a[2], a[3])

(***************************************************************************)
(* Inputs of the battle specification: a small catalogue as the card file  *)
(* could hold it (cost, timing, attack and hit points are never 0), the    *)
(* decks, demons and options of the runs, and the seeds of the worker.     *)
(***************************************************************************)
NumSeeds == 3
Ceiling == 56
ShortBattle == 20

\* The card types and the demons of the catalogue.
Catalogue ==
    [Forester |-> CardType("Forester", 1, 2, 1, 9, <<Attr("FOREST", 0)>>),
     Warden   |-> CardType("Warden", 1, 2, 1, 9,
                           <<Attr("FOREST", 0), Attr("FOREST_HP", 5)>>),
     Martyr   |-> CardType("Martyr", 1, 8, 1, 1,
                           <<Attr("FOREST", 0), Attr("SACRIFICE", 100),
                             Attr("FOREST_HP", 1)>>),
     Zealot   |-> CardType("Zealot", 1, 2, 1, 5, <<Attr("OBSTINACY", 200)>>),
     Squire   |-> CardType("Squire", 1, 2, 1, 3, <<Attr("SWAMP", 0)>>),
     Bulwark  |-> CardType("Bulwark", 1, 2, 1, 5, <<Attr("MTN", 0), Attr("PARRY", 50)>>),
     Guardian |-> CardType("Guardian", 1, 2, 1, 3, <<Attr("FOREST", 0), Attr("GUARD", 0)>>),
     Revenant |-> CardType("Revenant", 1, 2, 1, 2,
                           <<Attr("GUARD", 0), Attr("D_REANIMATE", 0)>>),
     Mourner  |-> CardType("Mourner", 1, 2, 1, 4,
                           <<Attr("FOREST", 0), Attr("FOREST_ATK", 2), Attr("D_PRAYER", 3),
                             Attr("D_REANIMATE", 0)>>),
     Pilgrim  |-> CardType("Pilgrim", 1, 2, 1, 4, <<Attr("D_REINCARNATE", 1)>>),
     Necromancer |-> CardType("Necromancer", 1, 2, 1, 5, <<Attr("REANIMATE", 0)>>),
     Phoenix  |-> CardType("Phoenix", 1, 2, 1, 1, <<Attr("RESURRECTION", 100)>>),
     Sentinel |-> CardType("Sentinel", 1, 2, 1, 5,
                           <<Attr("MTN", 0), Attr("PARRY", 2), Attr("CRAZE", 1)>>),
     Dancer   |-> CardType("Dancer", 1, 2, 1, 3,
                           <<Attr("DODGE", 50), Attr("COUNTERATTACK", 1)>>),
     Fiend    |-> CardType("Fiend", 1, 1, 1, 1000,
                           <<Attr("CHAIN_ATTACK", 150), Attr("LACERATE", 0)>>),
     Ember    |-> CardType("Ember", 1, 3, 1, 1, <<Attr("RESURRECTION", 100)>>),
     Sloth    |-> CardType("Sloth", 1, 24, 1, 9, <<>>),
     Imp      |-> CardType("Imp", 1, 1, 1, 1000, <<>>),
     Shade    |-> CardType("Shade", 1, 1, 1, 1000, <<Attr("CURSE", 11)>>),
     Brute    |-> CardType("Brute", 1, 1, 6, 1000, <<>>),
     Thorn    |-> CardType("Thorn", 1, 1, 2, 1000, <<Attr("COUNTERATTACK", 3)>>),
     Rogue    |-> CardType("Rogue", 1, 2, 1, 4, <<Attr("BACKSTAB", 2)>>),
     Archer   |-> CardType("Archer", 1, 2, 1, 6, <<Attr("SNIPE", 2)>>),
     Golem    |-> CardType("Golem", 1, 2, 1, 5, <<Attr("IMMUNITY", 0)>>),
     Hexer    |-> CardType("Hexer", 1, 1, 1, 1000, <<Attr("CURSE", 60)>>),
     Leech    |-> CardType("Leech", 1, 1, 2, 1000, <<Attr("WICKED_LEECH", 100)>>)]

Config(theDeck, theDemon, theRunes, initialHp, maxRounds) ==
    [theDeck |-> theDeck, theDemon |-> theDemon, theRunes |-> theRunes,
     initialHp |-> initialHp, maxRounds |-> maxRounds, avgConcentrate |-> FALSE,
     roundX |-> 50]

Configs ==
    {Config(<<Catalogue.Forester, Catalogue.Warden, Catalogue.Martyr>>, Catalogue.Imp, <<>>, 100, Ceiling),
     Config(<<Catalogue.Zealot>>, Catalogue.Imp, <<>>, 100, Ceiling),
     Config(<<Catalogue.Forester>>, Catalogue.Hexer, <<>>, 100, Ceiling),
     Config(<<Catalogue.Squire>>, Catalogue.Leech, <<>>, 100, Ceiling),
     Config(<<Catalogue.Bulwark>>, Catalogue.Leech, <<>>, 100, Ceiling),
     Config(<<Catalogue.Bulwark>>, Catalogue.Leech, <<>>, 100, 12)}

\* The seeds main gives a worker (two values of rand()).
Seeds ==
    {[w |-> Word(0, 3 * k + 1), z |-> Word(0, 5 * k + 2)] : k \in 0..(NumSeeds - 1)}

(***************************************************************************)
(* The battle specification: one worker running one battle.                *)
(*   pc = "start"  before InitState and ShuffleSet                         *)
(*        "head"   at the test of Simulate's while loop                    *)
(*        "body"   inside the loop body                                    *)
(*        "after"  the loop has been left, round-- not yet executed        *)
(*        "done"   Simulate has returned                                   *)
(*        "exit"   the program has called exit(1)                          *)
(***************************************************************************)
\* A battle with an empty deck, an empty hand and one card with 0 attack on the
\* field, the player alive.
Lone(s) ==
    /\ s.deck.numCards = 0
    /\ s.hand.numCards = 0
    /\ s.field.numCards = 1
    /\ F(s, 0).atk = 0
    /\ s.hp > 0

\* History: the record of the first round at whose head the battle was Lone.
Seen(s) ==
    IF call.op = "none" /\ Lone(s) THEN [op |-> "lone", round |-> s.round] ELSE call

Init ==
    /\ config \in Configs
    /\ \E sd \in Seeds : state = [ZeroState EXCEPT !.seedW = sd.w, !.seedZ = sd.z]
    /\ pc = "start"
    /\ completed = 0
    /\ hitRoundX = FALSE
    /\ card = ZeroCard
    /\ call = [op |-> "none", round |-> 0]
    /\ NoProgram

\* ThreadSimulate up to the call of Simulate.
StartBattle ==
    /\ pc = "start"
    /\ state' = Call("ShuffleSet", <<InitState(state, InitDefaultState(config))>>)
    /\ hitRoundX' = FALSE
    /\ pc' = "head"
    /\ UNCHANGED <<completed, config, card, call>>
    /\ UNCHANGED progVars

\* The while test holds: the body is entered.
EnterRound ==
    /\ pc = "head"
    /\ LoopCondition(state, config.maxRounds)
    /\ pc' = "body"
    /\ call' = Seen(state)
    /\ UNCHANGED <<state, completed, hitRoundX, config, card>>
    /\ UNCHANGED progVars

\* The while test fails: the loop is left.
LeaveLoop ==
    /\ pc = "head"
    /\ ~LoopCondition(state, config.maxRounds)
    /\ pc' = "after"
    /\ call' = Seen(state)
    /\ UNCHANGED <<state, completed, hitRoundX, config, card>>
    /\ UNCHANGED progVars

\* EndRound without the round++.
EndRoundSameRound(s) ==
    /\ state' = s
    /\ pc' = IF s.fatal THEN "exit" ELSE "head"
    /\ completed' = IF s.fatal THEN completed ELSE completed + 1

\* The end of an iteration of the loop with the State s: round++, unless the
\* program has exited.
EndRound(s) ==
    /\ state' = IF s.fatal THEN s ELSE [s EXCEPT !.round = @ + 1]
    /\ pc' = IF s.fatal THEN "exit" ELSE "head"
    /\ completed' = IF s.fatal THEN completed ELSE completed + 1

\* The body in an odd round: the demon's round.
DemonRound ==
    /\ pc = "body"
    /\ ~IsPlayerRound(state)
    /\ \E s1 \in {Call("SimDemon", <<Call("DecreaseTimers", <<state>>)>>)} : EndRound(s1)
    /\ hitRoundX' = (hitRoundX \/ state.round = config.roundX)
    /\ UNCHANGED <<config, card, call>>
    /\ UNCHANGED progVars

\* The body in an even round: the cards are played; the player killed by a card
\* entering the field ends the loop (the break), otherwise the player's round
\* follows.
PlayerRound ==
    /\ pc = "body"
    /\ IsPlayerRound(state)
    /\ \E s1 \in {Call("PlayCards", <<state>>)} :
          IF s1.fatal THEN EndRound(s1)
          ELSE IF s1.hp <= 0
          THEN /\ state' = s1
               /\ pc' = "after"
               /\ UNCHANGED completed
          ELSE \E s2 \in {Call("SimPlayer", <<s1>>)} : EndRound(s2)
    /\ hitRoundX' = (hitRoundX \/ state.round = config.roundX)
    /\ UNCHANGED <<config, card, call>>
    /\ UNCHANGED progVars

\* round-- and the return of Simulate.
Return ==
    /\ pc = "after"
    /\ state' = LastRound(state)
    /\ pc' = "done"
    /\ UNCHANGED <<completed, hitRoundX, config, card, call>>
    /\ UNCHANGED progVars

Next ==
    \/ StartBattle
    \/ EnterRound
    \/ LeaveLoop
    \/ DemonRound
    \/ PlayerRound
    \/ Return

Spec == Init /\ [][Next]_vars

(***************************************************************************)
(* Properties of the battle specification.                                 *)
(***************************************************************************)
\* The worker is between two rounds, or Simulate has ended.
BetweenRounds == pc \in {"head", "after", "done"}

\* The cards of the four sets of the State.
AllCards(s) ==
    UNION {{s[which].cards[i] : i \in 0..(s[which].numCards - 1)} :
             which \in {"deck", "hand", "field", "grave"}}

\* C1: between two rounds of a battle, every card of the deck, the hand, the
\* field and the graveyard has 0 <= hp <= maxHp.
C1_HpWithinBounds ==
    BetweenRounds => \A c \in AllCards(state) : 0 <= c.hp /\ c.hp <= c.maxHp

\* The test of the while loop as the program makes it: the graveyard is not
\* looked at.
Continues(s) ==
    /\ s.hp > 0
    /\ (s.deck.numCards > 0 \/ s.hand.numCards > 0 \/ s.field.numCards > 0)
    /\ s.round <= config.maxRounds

\* The test as C8 states it, the graveyard being one of four rosters.
ContinuesFour(s) ==
    /\ s.hp > 0
    /\ (s.deck.numCards > 0 \/ s.hand.numCards > 0 \/ s.field.numCards > 0
           \/ s.grave.numCards > 0)
    /\ s.round <= config.maxRounds

\* C8 (as amended): at the head of the loop another round is entered exactly
\* when the player's hp > 0, one of the three rosters deck, hand and field is
\* not empty (the graveyard does not count) and round <= the ceiling; the loop
\* is left exactly when hp <= 0, or these three rosters are empty, or round >
\* the ceiling; and a round is left in its middle only with hp <= 0.
C8_LoopTest ==
    [][/\ pc = "head" => /\ (pc' = "body") <=> Continues(state)
                         /\ (pc' = "after") <=> ~Continues(state)
       /\ (pc = "body" /\ pc' = "after") => state'.hp <= 0]_vars

\* C8 as stated: another round is entered exactly when hp > 0, one of the four
\* rosters deck, hand, field and graveyard is not empty and round <= the ceiling.
C8_AsStated ==
    [][pc = "head" => /\ (pc' = "body") <=> ContinuesFour(state)
                      /\ (pc' = "after") <=> ~ContinuesFour(state)]_vars

\* C8 witness: the loop has been left with the player alive and the ceiling
\* not reached, deck, hand and field empty and a card in the graveyard.
C8_Witness ==
    /\ pc = "after"
    /\ state.hp > 0
    /\ state.round <= config.maxRounds
    /\ state.deck.numCards = 0
    /\ state.hand.numCards = 0
    /\ state.field.numCards = 0
    /\ state.grave.numCards > 0

C10_RoundsReported ==
    pc = "done" => state.round = completed

\* C10 witness: Simulate has returned after the player died of a card entering
\* the field, in the middle of a player's round before the demon's first round.
C10_Witness ==
    /\ pc = "done"
    /\ state.hp <= 0
    /\ state.round < FIRST_DEMON_ROUND
    /\ state.round = completed
    /\ \E i \in 0..(state.field.numCards - 1) : HasAttr(F(state, i), "OBSTINACY")

\* C11: the rounds of a battle alternate.  Every round that runs to its end
\* adds 1 to the round; an odd round is the demon's (the timers, then SimDemon),
\* an even round the player's (the timers, the cards played, then SimPlayer,
\* or the end of the battle if a card played has killed the player); and in a
\* round below FIRST_DEMON_ROUND the demon does nothing: after an odd one only
\* the timers of the hand and the round differ, and an even one leaves the
\* demon as it was.
C11_RoundsAlternate ==
    [][(pc = "body" /\ pc' # "exit") =>
          /\ pc' = "head" => state'.round = state.round + 1
          /\ state.round % 2 = 1 =>
                /\ pc' = "head"
                /\ state' = [Call("SimDemon", <<Call("DecreaseTimers", <<state>>)>>)
                                EXCEPT !.round = @ + 1]
          /\ state.round % 2 = 0 =>
                LET s1 == Call("PlayCards", <<state>>)
                IN IF s1.hp <= 0 THEN pc' = "after" /\ state' = s1
                   ELSE /\ pc' = "head"
                        /\ state' = [Call("SimPlayer", <<s1>>) EXCEPT !.round = @ + 1]
          /\ (state.round < FIRST_DEMON_ROUND /\ state.round % 2 = 1) =>
                state' = [Call("DecreaseTimers", <<state>>) EXCEPT !.round = @ + 1]
          /\ state.round < FIRST_DEMON_ROUND => state'.demon = state.demon]_vars

\* C11 witness: the head of round 6 against a demon with Curse 60, the player
\* having lost the 60 hit points of one curse, that of round 5, and no more.
C11_Witness ==
    /\ pc = "head"
    /\ state.round = FIRST_DEMON_ROUND + 1
    /\ completed = FIRST_DEMON_ROUND
    /\ AttrLevel(state.demon, "CURSE") = 60
    /\ state.hp = config.initialHp - 60

(***************************************************************************)
(* The card specification: InitCard, AddAttr, AddBuffToCard and RemoveAttr *)
(* applied in any order to one card.  The card starts as an entry of       *)
(* cardTypes[] (pc = "raw": current-state section still zero, and a base   *)
(* attribute array that may hold NONE between two attributes, which the    *)
(* card file can spell out); InitCard makes it a card of a battle          *)
(* (pc = "card").                                                          *)
(*   call = [op, before, type, level]: the last operation, the card it     *)
(*   was applied to and its arguments.  completed counts the buffs given.  *)
(***************************************************************************)
MaxAttrs == 3
MaxBuffs == 2

CardTemplates ==
    {CardType("Plain", 1, 2, 3, 4, <<>>),
     CardType("Gapped", 2, 4, 5, 7,
              <<Attr("DODGE", 1), Attr("NONE", 0), Attr("FOREST", 0),
                Attr("NONE", 0), Attr("DODGE", 2)>>)}

AttrKinds == {"DODGE", "FOREST_HP_BUFF", "FOREST_ATK_BUFF"}

Levels == {1, 2}

CardCall(op, before, type, level) ==
    [op |-> op, before |-> before, type |-> type, level |-> level]

CardInitial ==
    /\ card \in CardTemplates
    /\ pc = "raw"
    /\ call = CardCall("none", ZeroCard, "NONE", 0)
    /\ state = ZeroState
    /\ completed = 0
    /\ hitRoundX = FALSE
    /\ config = Config(<<>>, ZeroCard, <<>>, 0, 0)
    /\ NoProgram

\* InitCard(card).
CardInit ==
    /\ pc \in {"raw", "card"}
    /\ card' = InitCard(card)
    /\ call' = CardCall("InitCard", card, "NONE", 0)
    /\ pc' = "card"
    /\ UNCHANGED <<state, completed, hitRoundX, config>>
    /\ UNCHANGED progVars

\* AddAttr(card, {type, level}) for an attribute that is no class buff.
CardAddAttr ==
    /\ pc = "card"
    /\ Len(card.attr) < MaxAttrs
    /\ \E level \in Levels :
          /\ card' = AddAttr(card, Attr("DODGE", level))
          /\ call' = CardCall("AddAttr", card, "DODGE", level)
    /\ UNCHANGED <<state, pc, completed, hitRoundX, config>>
    /\ UNCHANGED progVars

\* AddBuffToCard(src, card, buff, level).
CardAddBuff ==
    /\ pc = "card"
    /\ Len(card.attr) < MaxAttrs
    /\ completed < MaxBuffs
    /\ \E buff \in {"FOREST_HP_BUFF", "FOREST_ATK_BUFF"}, level \in Levels :
          /\ card' = BuffCard(card, buff, level)
          /\ call' = CardCall("AddBuffToCard", card, buff, level)
    /\ completed' = completed + 1
    /\ UNCHANGED <<state, pc, hitRoundX, config>>
    /\ UNCHANGED progVars

\* RemoveAttr(card, type, level), level -1 (ANY) included.
CardRemoveAttr ==
    /\ pc = "card"
    /\ \E type \in AttrKinds, level \in Levels \cup {ANY} :
          /\ card' = RemoveAttr(card, type, level)
          /\ call' = CardCall("RemoveAttr", card, type, level)
    /\ UNCHANGED <<state, pc, completed, hitRoundX, config>>
    /\ UNCHANGED progVars

CardNext ==
    \/ CardInit
    \/ CardAddAttr
    \/ CardAddBuff
    \/ CardRemoveAttr

CardSpec == CardInitial /\ [][CardNext]_vars

(***************************************************************************)
(* Properties of the card specification.                                   *)
(***************************************************************************)
\* The entries of a list that are of the type, in order.
OfType(attr, type) == SelectSeq(attr, LAMBDA a : a.type = type)

\* The entries of a list that are not of the type, in order.
NotOfType(attr, type) == SelectSeq(attr, LAMBDA a : a.type # type)

\* The list without its entry at index i.
Without(attr, i) == SubSeq(attr, 1, i - 1) \o SubSeq(attr, i + 1, Len(attr))

\* The index of the first entry equal to a, 0 if there is none.
FirstIndex(attr, a) ==
    IF \E i \in 1..Len(attr) : attr[i] = a
    THEN CHOOSE i \in 1..Len(attr) :
            attr[i] = a /\ \A j \in 1..(i - 1) : attr[j] # a
    ELSE 0

\* C2: after InitCard, whatever the card was before, hp = maxHp = baseHp,
\* atk = curBaseAtk = baseAtk, curTiming = timing, and the attribute list is
\* the non-NONE entries of the template's base attributes in template order.
C2_InitCardResets ==
    call.op = "InitCard" =>
        /\ card.hp = card.baseHp
        /\ card.maxHp = card.baseHp
        /\ card.atk = card.baseAtk
        /\ card.curBaseAtk = card.baseAtk
        /\ card.curTiming = card.timing
        /\ card.attr = NonNone(card.baseAttr)
        /\ card.baseAttr = call.before.baseAttr
        /\ card.baseHp = call.before.baseHp
        /\ card.baseAtk = call.before.baseAtk
        /\ card.timing = call.before.timing

\* C2 witness: InitCard has reset a buffed card whose template holds NONE
\* between two attributes, and whose attributes and statistics had changed.
C2_Witness ==
    /\ call.op = "InitCard"
    /\ \E i \in 1..(Len(card.baseAttr) - 1) : card.baseAttr[i].type = "NONE"
    /\ call.before.attr # card.attr
    /\ call.before.hp # card.hp
    /\ call.before.atk # card.atk

\* C3: RemoveAttr with a level deletes exactly the first entry matching type
\* and level (nothing if there is none); RemoveAttr with ANY deletes every
\* entry of the type; the other entries keep their order.  HasAttr is false
\* after an ANY removal, and after an exact removal it is false exactly when
\* no other entry of the type remains.
C3_RemoveAttr ==
    call.op = "RemoveAttr" =>
        LET before == call.before.attr
            i == FirstIndex(before, Attr(call.type, call.level))
        IN /\ call.level # ANY /\ i = 0 => card.attr = before
           /\ call.level # ANY /\ i # 0 =>
                 /\ card.attr = Without(before, i)
                 /\ HasAttr(card, call.type) <=> Len(OfType(before, call.type)) > 1
           /\ call.level = ANY =>
                 /\ card.attr = NotOfType(before, call.type)
                 /\ ~HasAttr(card, call.type)
           /\ card = [call.before EXCEPT !.attr = card.attr]

\* C3 witness: an exact removal has deleted the second of three entries while
\* another entry of the same type, with another level, stays in front of it.
C3_Witness ==
    /\ call.op = "RemoveAttr"
    /\ call.level # ANY
    /\ Len(call.before.attr) = MaxAttrs
    /\ FirstIndex(call.before.attr, Attr(call.type, call.level)) = 2
    /\ call.before.attr[1].type = call.type
    /\ HasAttr(card, call.type)

\* C4 (as amended): a removal by type only (level ANY) removes every entry of
\* the type: a card holding two or more attributes of the type holds none of
\* them afterwards, and its other attributes stay.
C4_KindOnlyRemovesAll ==
    (call.op = "RemoveAttr" /\ call.level = ANY
        /\ Len(OfType(call.before.attr, call.type)) >= 2) =>
        /\ Len(OfType(card.attr, call.type)) = 0
        /\ Len(card.attr) =
              Len(call.before.attr) - Len(OfType(call.before.attr, call.type))

\* C4 as stated: a card holding two attributes of the type still holds one of
\* them after a removal by type only.
C4_KindOnlyRemovesFirst ==
    (call.op = "RemoveAttr" /\ call.level = ANY
        /\ Len(OfType(call.before.attr, call.type)) = 2) =>
        Len(OfType(card.attr, call.type)) = 1

\* C4 witness: a removal by type only on a card that held two attributes of the
\* type, with different levels, and one of another type.
C4_Witness ==
    /\ call.op = "RemoveAttr"
    /\ call.level = ANY
    /\ Len(OfType(call.before.attr, call.type)) = 2
    /\ Len(call.before.attr) = 3
    /\ \E i, j \in 1..3 :
          /\ call.before.attr[i].type = call.type
          /\ call.before.attr[j].type = call.type
          /\ call.before.attr[i].level # call.before.attr[j].level

(***************************************************************************)
(* The selection specification: PickNCards applied to a field as a demon's *)
(* round can meet it, living cards and dead placeholders in any order,     *)
(* for any requested count, the random draws being those of the worker's   *)
(* stream from one of its seeds on (a pick moves the stream on, so a       *)
(* second and a third pick see other draws).                               *)
(*   call = [op, n, cnt, ret]: the count asked for, the count returned and *)
(*   the array of indices.  completed counts the picks.                    *)
(***************************************************************************)
MaxRoster == 5
MaxPicks == 3

\* The fields of k cards, each a living card or the placeholder of a dead one.
PickRosters ==
    UNION {{[numCards |-> k,
             cards |-> [i \in Slots |->
                          IF i \in alive THEN InitCard(Catalogue.Forester)
                          ELSE IF i < k THEN DeadCard ELSE ZeroCard]] :
               alive \in SUBSET (0..(k - 1))} : k \in 0..MaxRoster}

PickInitial ==
    /\ \E sd \in Seeds, f \in PickRosters :
          state = [ZeroState EXCEPT !.seedW = sd.w, !.seedZ = sd.z, !.field = f]
    /\ pc = "pick"
    /\ call = [op |-> "none", n |-> 0, cnt |-> 0, ret |-> <<>>]
    /\ completed = 0
    /\ hitRoundX = FALSE
    /\ config = Config(<<>>, ZeroCard, <<>>, 0, 0)
    /\ card = ZeroCard
    /\ NoProgram

\* PickNCards(state, &state->field, n, ret).
DoPick ==
    /\ pc = "pick"
    /\ completed < MaxPicks
    /\ \E n \in 0..(MaxRoster + 1) :
          \E p \in {Call("PickNCards", <<state, state.field, n>>)} :
             /\ state' = p.s
             /\ call' = [op |-> "PickNCards", n |-> n, cnt |-> p.n, ret |-> p.ret]
    /\ completed' = completed + 1
    /\ UNCHANGED <<pc, hitRoundX, config, card>>
    /\ UNCHANGED progVars

PickNext == DoPick

PickSpec == PickInitial /\ [][PickNext]_vars

\* The indices of the living cards of a set.
Living(cs) == {i \in 0..(cs.numCards - 1) : cs.cards[i].hp > 0}

\* C5: PickNCards returns min(n, number of living cards) indices, each the
\* index of a card of the set with hp > 0, in strictly ascending order (so no
\* index twice), whatever the roster, the count asked for and the draws.
C5_PickNCards ==
    call.op = "PickNCards" =>
        /\ call.cnt = MIN(call.n, Cardinality(Living(state.field)))
        /\ \A k \in 1..call.cnt : call.ret[k] \in Living(state.field)
        /\ \A k \in 1..(call.cnt - 1) : call.ret[k] < call.ret[k + 1]

\* C5 witness: two cards drawn at random out of four living ones of a field
\* that also holds a dead card, the first living card not among the picks.
C5_Witness ==
    /\ call.op = "PickNCards"
    /\ call.cnt = 2
    /\ Cardinality(Living(state.field)) = 4
    /\ state.field.numCards = 5
    /\ \E i \in Living(state.field) :
          /\ \A j \in Living(state.field) : i <= j
          /\ call.ret[1] # i

(***************************************************************************)
(* The field specification: DamagePlayer and the class buffs applied to    *)
(* the fields a battle builds.  The battle is one with an empty deck and   *)
(* the field starts empty; cards enter it as PlayCardsFromHand puts them   *)
(* there (AddCardToSet and CardPlayedToField), the player is hit as in a   *)
(* demon's round (DamagePlayer, and RemoveDeadCards at the round's end),   *)
(* and a class buff is placed and taken back.                              *)
(*   pc = "field"     between two operations                               *)
(*        "hit"       DamagePlayer has returned, the demon's round not     *)
(*                    yet ended                                            *)
(*        "buffed"    AddBuffToField has returned                          *)
(*        "unbuffed"  RemoveBuffFromField has returned                     *)
(*   call = [op, before, mid, a, b, c]: the operation under way, the State *)
(*   it was applied to, and                                                *)
(*     "DamagePlayer": a the damage;                                       *)
(*     "AddBuffToField", "RemoveBuffFromField": a the slot of the source   *)
(*        card, b the ability, c the level, mid the State between the two. *)
(*   completed counts the cards played.                                    *)
(***************************************************************************)
MaxDeploys == 3
MaxDmg == 3

FieldPool == {Catalogue.Forester, Catalogue.Warden, Catalogue.Guardian, Catalogue.Revenant}

FieldAbilities == {Attr("FOREST_HP", 5), Attr("FOREST_HP", 1), Attr("FOREST_ATK", 1)}

FieldCall(op, before, mid, a, b, c) ==
    [op |-> op, before |-> before, mid |-> mid, a |-> a, b |-> b, c |-> c]

NoCall == FieldCall("none", ZeroState, ZeroState, 0, "NONE", 0)

FieldInitial ==
    /\ config = Config(<<>>, Catalogue.Imp, <<>>, 4, Ceiling)
    /\ state = InitState([ZeroState EXCEPT !.seedW = Word(0, 1), !.seedZ = Word(0, 2)],
                         InitDefaultState(config))
    /\ pc = "field"
    /\ call = NoCall
    /\ completed = 0
    /\ hitRoundX = FALSE
    /\ card = ZeroCard
    /\ NoProgram

\* A card of the type t leaves the hand for the field.
Deploy ==
    /\ pc = "field"
    /\ state.hp > 0
    /\ completed < MaxDeploys
    /\ \E t \in FieldPool :
          state' = Call("CardPlayedToField",
                        <<AddCardTo(state, "field", InitCard(t)), state.field.numCards>>)
    /\ completed' = completed + 1
    /\ UNCHANGED <<pc, call, hitRoundX, config, card>>
    /\ UNCHANGED progVars

\* DamagePlayer(state, dmg).
HitPlayer ==
    /\ pc = "field"
    /\ state.hp > 0
    /\ \E dmg \in 1..MaxDmg :
          /\ state' = Call("DamagePlayer", <<state, dmg>>)
          /\ call' = FieldCall("DamagePlayer", state, state, dmg, "NONE", 0)
    /\ pc' = "hit"
    /\ UNCHANGED <<completed, hitRoundX, config, card>>
    /\ UNCHANGED progVars

\* The RemoveDeadCards that ends the demon's round.
EndDemonRound ==
    /\ pc = "hit"
    /\ state' = Call("RemoveDeadCards", <<state>>)
    /\ call' = NoCall
    /\ pc' = "field"
    /\ UNCHANGED <<completed, hitRoundX, config, card>>
    /\ UNCHANGED progVars

\* AddBuffToField(state, c, class, buff, level) for the class ability of a card
\* c of the field.
AddBuff ==
    /\ pc = "field"
    /\ state.hp > 0
    /\ \E c \in 0..(state.field.numCards - 1), ab \in FieldAbilities :
          /\ state' = Call("AddBuffToField",
                           <<state, c, ClassOf(ab.type), BuffOf(ab.type), ab.level>>)
          /\ call' = FieldCall("AddBuffToField", state, state, c, ab.type, ab.level)
    /\ pc' = "buffed"
    /\ UNCHANGED <<completed, hitRoundX, config, card>>
    /\ UNCHANGED progVars

\* RemoveBuffFromField(state, c, buff, level) with the arguments of the
\* AddBuffToField before it.
RemoveBuff ==
    /\ pc = "buffed"
    /\ state' = Call("RemoveBuffFromField", <<state, call.a, BuffOf(call.b), call.c>>)
    /\ call' = [call EXCEPT !.op = "RemoveBuffFromField", !.mid = state]
    /\ pc' = "unbuffed"
    /\ UNCHANGED <<completed, hitRoundX, config, card>>
    /\ UNCHANGED progVars

FieldNext ==
    \/ Deploy
    \/ HitPlayer
    \/ EndDemonRound
    \/ AddBuff
    \/ RemoveBuff

FieldSpec == FieldInitial /\ [][FieldNext]_vars

(***************************************************************************)
(* Properties of the field specification.                                  *)
(***************************************************************************)
\* The slots of the field of s that hold a Guard card.
Guards(s) == {i \in 0..(s.field.numCards - 1) : HasAttr(F(s, i), "GUARD")}

\* The number of cards of the name in a set.
CountName(cs, name) == Cardinality({i \in 0..(cs.numCards - 1) : cs.cards[i].name = name})

\* The guard in slot g dies of the damage dmg with Desperation: Reanimate while
\* the graveyard holds a Guard card that can be reanimated.
GuardReturns(s, g, dmg) ==
    /\ F(s, g).hp <= dmg
    /\ HasAttr(F(s, g), "D_REANIMATE")
    /\ \E j \in 0..(s.grave.numCards - 1) :
          HasAttr(s.grave.cards[j], "GUARD") /\ Reanimatable(s.grave.cards[j])

\* What C6 states of DamagePlayer(before, dmg) = after, the one guard of the
\* field being in slot g.
GuardAbsorbs(before, after, g, dmg) ==
    LET G == F(before, g).hp
    IN /\ after.hp = before.hp - MAX(0, dmg - G)
       /\ G > dmg => F(after, g) = [F(before, g) EXCEPT !.hp = G - dmg]
       /\ G <= dmg =>
             /\ F(after, g).hp = 0
             /\ HasAttr(F(after, g), "DEAD")
             /\ CountName(after.grave, F(before, g).name)
                   = CountName(before.grave, F(before, g).name) + 1

Affected(s, c, class) ==
    {i \in 0..(s.field.numCards - 1) : i # c /\ HasAttr(F(s, i), class)}

\* C7: AddBuffToField followed by RemoveBuffFromField with the same source,
\* buff and level gives every card the buff reached the attack, base attack
\* and maximal hit points it had before, and changes no other card (of the
\* field or of another set), whatever the field, the source and the level.
\* The fields are those whose cards have attack and base attack >= 0: the
\* removal floors both at 0 (sim.c 997-1000), and only a Wicked Leech
\* above 100% leaves a base attack below 0 (sim.c 2485-2497).
C7_BuffRoundTrip ==
    call.op = "RemoveBuffFromField" =>
        LET before == call.before
            hit == Affected(before, call.a, ClassOf(call.b))
        IN /\ \A i \in hit :
                 /\ F(state, i).atk = F(before, i).atk
                 /\ F(state, i).curBaseAtk = F(before, i).curBaseAtk
                 /\ F(state, i).maxHp = F(before, i).maxHp
           /\ \A i \in Slots \ hit : F(state, i) = F(before, i)
           /\ state.field.numCards = before.field.numCards
           /\ state.deck = before.deck
           /\ state.hand = before.hand
           /\ state.grave = before.grave

\* C7 witness: a buff of level 5 was placed on two cards of a field of three,
\* one of which already held a buff of that kind and level from another source,
\* and taken back.
C7_Witness ==
    /\ call.op = "RemoveBuffFromField"
    /\ call.c = 5
    /\ call.before.field.numCards = 3
    /\ Cardinality(Affected(call.before, call.a, ClassOf(call.b))) = 2
    /\ \E i \in Affected(call.before, call.a, ClassOf(call.b)) :
          /\ HasAttr(F(call.before, i), BuffOf(call.b))
          /\ AttrLevel(F(call.before, i), BuffOf(call.b)) = call.c
          /\ F(call.mid, i).maxHp = F(call.before, i).maxHp + call.c
          /\ F(state, i).maxHp = F(call.before, i).maxHp

(***************************************************************************)
(* The program specification: main and the threads it starts.              *)
(*   pc             position of main: "create" (the loop that starts the   *)
(*                  threads), "join" (the loop that waits for them),       *)
(*                  "total" (the loop over results[]), "done", or "exit"   *)
(*                  if a thread has called exit(1)                         *)
(*   worker[i].pc   "none" thread i not started, "for" at the test of      *)
(*                  ThreadSimulate's loop, "battle" after InitState,       *)
(*                  "returned"                                             *)
(*   config         the globals, numIters and numThreads among them        *)
(*   call[i]        history: for every iteration of thread i, the seeds it *)
(*                  started from, its outcome and the seeds it ended on    *)
(* State and Result pointers are indices into states[] and results[];      *)
(* NULL is -1.                                                             *)
(***************************************************************************)
MaxIters == 3
MaxThreads == 2
INT_MAX == 2147483647

ProgramConfigs ==
    {[Config(<<Catalogue.Forester, Catalogue.Warden, Catalogue.Zealot>>,
             Catalogue.Imp, <<>>, 100, 10) EXCEPT !.roundX = 7],
     [Config(<<Catalogue.Bulwark, Catalogue.Squire>>,
             Catalogue.Leech, <<>>, 100, 9) EXCEPT !.roundX = 9]}

\* The values rand() gives main for the seeds of a thread.
RandValues == {[w |-> Word(0, 1), z |-> Word(0, 2)], [w |-> Word(0, 4), z |-> Word(0, 7)]}

Threads == 0..(config.numThreads - 1)

\* A Result and a Task in calloc'ed storage.
ZeroResult ==
    [total |-> 0, totalRounds |-> 0, lowRounds |-> 0, highRounds |-> 0,
     lowDamage |-> 0, highDamage |-> 0, timesRoundX |-> 0]

ZeroTask == [state |-> -1, numIterations |-> 0, result |-> -1]

\* The locals of ThreadSimulate as declared.
ThreadLocals ==
    [pc |-> "none", i |-> 0, total |-> 0, totalRounds |-> 0, lowRounds |-> INT_MAX,
     highRounds |-> 0, lowDamage |-> INT_MAX, highDamage |-> 0, timesRoundX |-> 0,
     hitRoundX |-> FALSE]

\* The locals of main as declared.
MainLocals ==
    [i |-> 0, total |-> 0, totalRounds |-> 0, lowRounds |-> INT_MAX, highRounds |-> 0,
     lowDamage |-> INT_MAX, highDamage |-> 0, timesRoundX |-> 0]

\* numIterations without the remainder given to thread 0.
NumIterationsEqual(i, numIters, numThreads) == CDiv(numIters, numThreads)

\* numIterations of thread i in main's loop.
NumIterations(i, numIters, numThreads) ==
    LET numIterations == CDiv(numIters, numThreads)
    IN IF i = 0 THEN numIterations + (numIters - numIterations * numThreads)
       ELSE numIterations

\* tasks[i] as main fills it in.
NewTask(i) ==
    [state |-> i,
     numIterations |-> NumIterations(i, config.numIters, config.numThreads),
     result |-> i]

\* The statements of ThreadSimulate's loop after Simulate, for the locals l.
Tally(l, s, hit) ==
    [l EXCEPT !.hitRoundX = hit,
              !.timesRoundX = IF hit THEN @ + 1 ELSE @,
              !.total = @ + s.dmgDone,
              !.totalRounds = @ + s.round,
              !.highDamage = MAX(@, s.dmgDone),
              !.lowDamage = MIN(@, s.dmgDone),
              !.highRounds = MAX(@, s.round),
              !.lowRounds = MIN(@, s.round),
              !.i = @ + 1]

\* The Result ThreadSimulate stores from its locals l.
StoreResult(l) ==
    [total |-> l.total, totalRounds |-> l.totalRounds, highDamage |-> l.highDamage,
     lowDamage |-> l.lowDamage, highRounds |-> l.highRounds,
     lowRounds |-> l.lowRounds, timesRoundX |-> l.timesRoundX]

\* The body of main's loop with the low and high values of the Result taken as
\* they are (no MIN, no MAX with the values main holds).
TotalResultLast(m, r) ==
    [m EXCEPT !.total = @ + r.total,
              !.totalRounds = @ + r.totalRounds,
              !.timesRoundX = @ + r.timesRoundX,
              !.highDamage = r.highDamage,
              !.lowDamage = r.lowDamage,
              !.highRounds = r.highRounds,
              !.lowRounds = r.lowRounds,
              !.i = @ + 1]

\* The body of main's loop over results[], for the locals m and results[i] = r.
TotalResult(m, r) ==
    [m EXCEPT !.total = @ + r.total,
              !.totalRounds = @ + r.totalRounds,
              !.timesRoundX = @ + r.timesRoundX,
              !.highDamage = MAX(@, r.highDamage),
              !.lowDamage = MIN(@, r.lowDamage),
              !.highRounds = MAX(@, r.highRounds),
              !.lowRounds = MIN(@, r.lowRounds),
              !.i = @ + 1]

\* pthread_join that does not wait for the thread.
JoinedAtOnce(i) == TRUE

\* pthread_join(threads[i]) returns.
Joined(i) == worker[i].pc = "returned"

\* History: the record of an iteration of thread w that starts, with the seeds
\* of the thread, and the record of the iteration when its battle has ended.
Started(w) ==
    [seedW |-> states[tasks[w].state].seedW, seedZ |-> states[tasks[w].state].seedZ,
     ended |-> FALSE, dmgDone |-> 0, round |-> 0, hitRoundX |-> FALSE,
     endW |-> Word(0, 0), endZ |-> Word(0, 0)]

Ended(started, after, hit) ==
    [started EXCEPT !.ended = TRUE, !.dmgDone = after.dmgDone, !.round = after.round,
                    !.hitRoundX = hit, !.endW = after.seedW, !.endZ = after.seedZ]

\* main up to the loop that starts the threads.
MainInit ==
    /\ config \in {c @@ [numIters |-> n, numThreads |-> t] :
                      c \in ProgramConfigs, n \in 0..MaxIters, t \in 1..MaxThreads}
    /\ defaultState = InitDefaultState(config)
    /\ states \in [Threads -> {[ZeroState EXCEPT !.seedW = r.w, !.seedZ = r.z] :
                                  r \in RandValues}]
    /\ results = [i \in Threads |-> ZeroResult]
    /\ tasks = [i \in Threads |-> ZeroTask]
    /\ worker = [i \in Threads |-> ThreadLocals]
    /\ main = MainLocals
    /\ pc = "create"
    /\ call = [i \in Threads |-> <<>>]
    /\ state = ZeroState
    /\ card = ZeroCard
    /\ completed = 0
    /\ hitRoundX = FALSE

\* The end of an iteration of one of main's three loops, which leads to next.
MainLoop(m, next) ==
    IF m.i < config.numThreads THEN main' = m /\ pc' = pc
    ELSE main' = [m EXCEPT !.i = 0] /\ pc' = next

\* One iteration of the loop that starts the threads.
CreateThread ==
    /\ pc = "create"
    /\ tasks' = [tasks EXCEPT ![main.i] = NewTask(main.i)]
    /\ worker' = [worker EXCEPT ![main.i].pc = "for"]
    /\ MainLoop([main EXCEPT !.i = @ + 1], "join")
    /\ UNCHANGED <<defaultState, states, results, call, config, state, card,
                   completed, hitRoundX>>

\* Thread w enters the body of its loop: InitState.
InitIteration ==
    /\ pc \notin {"exit", "done"}
    /\ \E w \in Threads :
          /\ worker[w].pc = "for"
          /\ worker[w].i < tasks[w].numIterations
          /\ states' = [states EXCEPT ![tasks[w].state] = InitState(@, defaultState)]
          /\ worker' = [worker EXCEPT ![w].pc = "battle"]
          /\ call' = [call EXCEPT ![w] = Append(@, Started(w))]
    /\ UNCHANGED <<defaultState, tasks, results, main, pc, config, state,
                   card, completed, hitRoundX>>

\* Thread w shuffles its deck, runs Simulate and adds the battle to its locals.
RunBattle ==
    /\ pc \notin {"exit", "done"}
    /\ \E w \in Threads :
          /\ worker[w].pc = "battle"
          /\ LET st == tasks[w].state
                 r == Call("Simulate", <<Call("ShuffleSet", <<states[st]>>),
                                         config.roundX, FALSE>>)
             IN /\ states' = [states EXCEPT ![st] = r.s]
                /\ IF r.s.fatal
                   THEN pc' = "exit" /\ UNCHANGED <<worker, call>>
                   ELSE /\ worker' = [worker EXCEPT
                              ![w] = [Tally(@, r.s, r.hitRoundX) EXCEPT !.pc = "for"]]
                        /\ call' = [call EXCEPT
                              ![w][Len(call[w])] = Ended(@, r.s, r.hitRoundX)]
                        /\ pc' = pc
    /\ UNCHANGED <<defaultState, tasks, results, main, config, state, card,
                   completed, hitRoundX>>

\* Thread w leaves its loop, stores its Result and returns.
ReturnResult ==
    /\ pc \notin {"exit", "done"}
    /\ \E w \in Threads :
          /\ worker[w].pc = "for"
          /\ worker[w].i >= tasks[w].numIterations
          /\ results' = [results EXCEPT ![tasks[w].result] = StoreResult(worker[w])]
          /\ worker' = [worker EXCEPT ![w].pc = "returned"]
    /\ UNCHANGED <<defaultState, states, tasks, main, pc, call, config, state,
                   card, completed, hitRoundX>>

\* One iteration of the loop that waits for the threads.
JoinThread ==
    /\ pc = "join"
    /\ Joined(main.i)
    /\ MainLoop([main EXCEPT !.i = @ + 1], "total")
    /\ UNCHANGED <<defaultState, states, tasks, results, worker, call, config,
                   state, card, completed, hitRoundX>>

\* One iteration of the loop that totals the results.
TotalResults ==
    /\ pc = "total"
    /\ MainLoop(TotalResult(main, results[main.i]), "done")
    /\ UNCHANGED <<defaultState, states, tasks, results, worker, call, config,
                   state, card, completed, hitRoundX>>

MainNext ==
    \/ CreateThread
    \/ InitIteration
    \/ RunBattle
    \/ ReturnResult
    \/ JoinThread
    \/ TotalResults

MainSpec == MainInit /\ [][MainNext]_vars

(***************************************************************************)
(* Properties of the program specification.                                *)
(***************************************************************************)
\* The iterations of the history whose battle has ended.
EndedRuns ==
    UNION {{call[w][k] : k \in {n \in 1..Len(call[w]) : call[w][n].ended}} :
             w \in DOMAIN call}

C15_ThreadsApart ==
    [][/\ defaultState' = defaultState
       /\ config' = config
       /\ \A j \in DOMAIN worker :
             (states'[j] # states[j] \/ results'[j] # results[j]) =>
                /\ worker[j].pc \in {"for", "battle"}
                /\ worker'[j] # worker[j] \/ pc' = "exit"
                /\ \A k \in DOMAIN worker \ {j} :
                      /\ states'[k] = states[k]
                      /\ results'[k] = results[k]
                      /\ worker'[k] = worker[k]
       /\ (pc = "total" \/ pc' = "total") =>
             \A j \in DOMAIN worker : worker[j].pc = "returned"]_vars

\* C15 witness: main has totalled the results of two threads that have each
\* run a battle, and the damage it holds is theirs.
C15_Witness ==
    /\ pc = "done"
    /\ config.numThreads = 2
    /\ \A w \in DOMAIN call : Len(call[w]) >= 1
    /\ results[0].total > 0
    /\ results[1].total > 0
    /\ main.total = results[0].total + results[1].total

\* C16: InitState leaves in the State of the thread the default state in
\* every field but seedW and seedZ, which keep the values they had, and the
\* default state is as it was.
C16_InitStateKeepsSeeds ==
    [][\A w \in DOMAIN worker :
          (worker[w].pc = "for" /\ worker'[w].pc = "battle") =>
             /\ \A f \in DOMAIN defaultState \ {"seedW", "seedZ"} :
                   states'[w][f] = defaultState[f]
             /\ states'[w].seedW = states[w].seedW
             /\ states'[w].seedZ = states[w].seedZ
             /\ defaultState' = defaultState]_vars

\* C16 witness: a thread has called InitState for its second iteration, after
\* a battle of several rounds with damage done; its State is at round 1 with
\* no damage done and has the seeds the first battle left, not those of the
\* default state.
C16_Witness ==
    \E w \in DOMAIN worker :
        /\ worker[w].pc = "battle"
        /\ worker[w].i = 1
        /\ call[w][1].round > 1
        /\ call[w][1].dmgDone > 0
        /\ states[w].round = 1
        /\ states[w].dmgDone = 0
        /\ states[w].seedW = call[w][1].endW
        /\ states[w].seedZ = call[w][1].endZ
        /\ states[w].seedW # defaultState.seedW

\* The sum of numIterations over the threads i..numThreads-1.
RECURSIVE SumIterations(_, _, _)
SumIterations(i, numIters, numThreads) ==
    IF i >= numThreads THEN 0
    ELSE NumIterations(i, numIters, numThreads)
            + SumIterations(i + 1, numIters, numThreads)

ShareIters == 12
ShareThreads == 5

\* C14: for numIters = N >= 0 and numThreads = T >= 1, thread 0 is given
\* floor(N/T) + (N mod T) iterations, every other thread floor(N/T), and the
\* numbers given sum to N: for all N and T up to ShareIters and ShareThreads,
\* and in the tasks main has filled in.
C14_IterationsShared ==
    /\ \A n \in 0..ShareIters, t \in 1..ShareThreads :
          /\ NumIterations(0, n, t) = (n \div t) + (n % t)
          /\ \A i \in 1..(t - 1) : NumIterations(i, n, t) = n \div t
          /\ SumIterations(0, n, t) = n
    /\ pc \in {"join", "total", "done"} =>
          /\ tasks[0].numIterations
                = (config.numIters \div config.numThreads)
                     + (config.numIters % config.numThreads)
          /\ \A i \in Threads \ {0} :
                tasks[i].numIterations = config.numIters \div config.numThreads
          /\ \A i \in Threads : tasks[i].state = i /\ tasks[i].result = i

\* C14 witness: main has started two threads for three iterations, two of
\* them for thread 0 and one for thread 1, and the threads have run them.
C14_Witness ==
    /\ pc = "total"
    /\ config.numIters = 3
    /\ config.numThreads = 2
    /\ tasks[0].numIterations = 2
    /\ tasks[1].numIterations = 1
    /\ worker[0].i = 2
    /\ worker[1].i = 1

(***************************************************************************)
(* The totals specification: the arithmetic of ThreadSimulate and of       *)
(* main's last loop on battles that are given.  call[i] is the sequence of *)
(* the battles of thread i as Simulate leaves them (dmgDone, round and     *)
(* hitRoundX); a thread runs its loop over them and stores its Result in   *)
(* one step; main waits for the threads and totals as in the program       *)
(* specification.                                                          *)
(***************************************************************************)
MaxBattles == 3
MaxWorkers == 3

\* What Simulate can leave of a battle.
Outcomes ==
    {[dmgDone |-> 0, round |-> 3, hitRoundX |-> FALSE],
     [dmgDone |-> 5, round |-> 8, hitRoundX |-> TRUE],
     [dmgDone |-> 2, round |-> 9, hitRoundX |-> TRUE]}

\* The sequences of at most n battles.
RECURSIVE BattlesUpTo(_)
BattlesUpTo(n) ==
    IF n = 0 THEN {<<>>}
    ELSE BattlesUpTo(n - 1)
            \cup {Append(b, o) : b \in {x \in BattlesUpTo(n - 1) : Len(x) = n - 1},
                                 o \in Outcomes}

\* The number of battles of the threads i..Len-1 of a function from threads
\* to sequences of battles.
RECURSIVE NumBattles(_, _, _)
NumBattles(b, i, n) == IF i >= n THEN 0 ELSE Len(b[i]) + NumBattles(b, i + 1, n)

\* ThreadSimulate's loop over the battles from the k-th on, for the locals l.
RECURSIVE TallyLoop(_, _, _)
TallyLoop(l, battles, k) ==
    IF k > Len(battles) THEN l
    ELSE TallyLoop(Tally(l, battles[k], battles[k].hitRoundX), battles, k + 1)

TotalsInit ==
    /\ \E t \in 1..MaxWorkers :
          /\ config = [numThreads |-> t]
          /\ call \in {b \in [0..(t - 1) -> BattlesUpTo(MaxBattles)] :
                         NumBattles(b, 0, t) <= MaxBattles}
    /\ tasks = [i \in DOMAIN call |->
                  [state |-> i, numIterations |-> Len(call[i]), result |-> i]]
    /\ worker = [i \in DOMAIN call |-> [ThreadLocals EXCEPT !.pc = "for"]]
    /\ results = [i \in DOMAIN call |-> ZeroResult]
    /\ main = MainLocals
    /\ pc = "join"
    /\ defaultState = ZeroState
    /\ states = <<>>
    /\ state = ZeroState
    /\ card = ZeroCard
    /\ completed = 0
    /\ hitRoundX = FALSE

\* A thread runs ThreadSimulate from its loop to its return.
ThreadRuns ==
    /\ pc = "join"
    /\ \E w \in Threads :
          /\ worker[w].pc = "for"
          /\ LET l == TallyLoop(worker[w], call[w], 1)
             IN /\ worker' = [worker EXCEPT ![w] = [l EXCEPT !.pc = "returned"]]
                /\ results' = [results EXCEPT ![tasks[w].result] = StoreResult(l)]
    /\ UNCHANGED <<defaultState, states, tasks, main, pc, call, config, state,
                   card, completed, hitRoundX>>

TotalsNext ==
    \/ ThreadRuns
    \/ JoinThread
    \/ TotalResults

TotalsSpec == TotalsInit /\ [][TotalsNext]_vars

\* The battles of the threads i..n-1, one thread after the other.
RECURSIVE AllBattles(_, _, _)
AllBattles(b, i, n) == IF i >= n THEN <<>> ELSE b[i] \o AllBattles(b, i + 1, n)

\* What main holds after its loop when one thread has run all the battles.
OneThread(battles) ==
    TotalResult(MainLocals, StoreResult(TallyLoop(ThreadLocals, battles, 1)))

\* The straightforward totals of a sequence of battles.
Damages(battles) == {battles[k].dmgDone : k \in 1..Len(battles)}
Rounds(battles) == {battles[k].round : k \in 1..Len(battles)}
Least(S) == CHOOSE x \in S : \A y \in S : x <= y
Most(S) == CHOOSE x \in S : \A y \in S : x >= y
RECURSIVE SumOf(_, _, _)
SumOf(battles, field, k) ==
    IF k > Len(battles) THEN 0 ELSE battles[k][field] + SumOf(battles, field, k + 1)

\* C13: however the battles are divided among the threads (threads with no
\* battle included), main's totals of the threads' Results are those of one
\* thread that runs all the battles: the same sum of damage, sum of rounds
\* and count of hitRoundX, the same lowest and highest damage and rounds; and
\* they are the sums and, where there is a battle, the least and the greatest
\* values of the battles.
C13_TotalsAnyPartition ==
    pc = "done" =>
        LET all == AllBattles(call, 0, config.numThreads)
            one == OneThread(all)
        IN /\ main.total = one.total
           /\ main.totalRounds = one.totalRounds
           /\ main.timesRoundX = one.timesRoundX
           /\ main.lowDamage = one.lowDamage
           /\ main.highDamage = one.highDamage
           /\ main.lowRounds = one.lowRounds
           /\ main.highRounds = one.highRounds
           /\ main.total = SumOf(all, "dmgDone", 1)
           /\ main.totalRounds = SumOf(all, "round", 1)
           /\ main.timesRoundX = Cardinality({k \in 1..Len(all) : all[k].hitRoundX})
           /\ Len(all) > 0 =>
                 /\ main.lowDamage = Least(Damages(all))
                 /\ main.highDamage = Most(Damages(all))
                 /\ main.lowRounds = Least(Rounds(all))
                 /\ main.highRounds = Most(Rounds(all))

\* C13 witness: main has totalled three threads, the first with two battles,
\* the second with none and the last with one; the lowest damage and the
\* lowest round are those of the last thread, the highest of the first.
C13_Witness ==
    /\ pc = "done"
    /\ config.numThreads = 3
    /\ Len(call[0]) = 2
    /\ Len(call[1]) = 0
    /\ Len(call[2]) = 1
    /\ results[1].lowDamage = INT_MAX
    /\ main.lowDamage = results[2].lowDamage
    /\ main.lowRounds = results[2].lowRounds
    /\ main.highDamage = results[0].highDamage
    /\ main.lowDamage < results[0].lowDamage
    /\ main.total = 7

(***************************************************************************)
(* The phase specification: the operations that make cards enter and leave *)
(* the field inside a phase, one operation per step.  The battle starts as *)
(* InitState leaves it; a card of the deck is drawn and enters the field   *)
(* (AddCardToSet and CardPlayedToField, as PlayCardsFromHand does), the    *)
(* demon uses one ability (one case of SimDemon's switch), the phase ends  *)
(* (RemoveDeadCards), the runes are handled (HandleRunes), and a player's  *)
(* card uses Reanimation or Reincarnation (SimReanimate, SimReincarnate).  *)
(*   pc = "phase"   between two operations                                 *)
(*        "last"    after an operation that is the last one looked at      *)
(*   call = [op, before, name, level]: the operation that has just been    *)
(*   applied, the State it was applied to, the name of the card played or  *)
(*   the level of the ability.                                             *)
(*   completed counts the operations.                                      *)
(***************************************************************************)
MaxOps == 6

PhaseConfigs ==
    {Config(<<Catalogue.Warden, Catalogue.Mourner, Catalogue.Pilgrim>>, Catalogue.Imp,
            <<Rune("Tsunami", "TSUNAMI", 80, 1)>>, 10, Ceiling),
     Config(<<Catalogue.Warden, Catalogue.Martyr>>, Catalogue.Imp, <<>>, 10, Ceiling)}

\* The demon's abilities that are followed further, and those looked at last.
PhaseAbilities == {Attr("CURSE", 6), Attr("DESTROY", 0), Attr("EXILE", 0)}

LastAbilities == {Attr("SNIPE", 1), Attr("MANA_CORRUPT", 1), Attr("TRAP", 1)}

PhaseCall(op, before, name, level) ==
    [op |-> op, before |-> before, name |-> name, level |-> level]

PhaseInit ==
    /\ config \in PhaseConfigs
    /\ state = InitState([ZeroState EXCEPT !.seedW = Word(0, 1), !.seedZ = Word(0, 2)],
                         InitDefaultState(config))
    /\ pc = "phase"
    /\ call = PhaseCall("none", ZeroState, "", 0)
    /\ completed = 0
    /\ hitRoundX = FALSE
    /\ card = ZeroCard
    /\ NoProgram

\* The card in slot i of the deck has been drawn and has waited in the hand;
\* PlayCardsFromHand puts it on the field.
Play ==
    /\ pc = "phase"
    /\ state.hp > 0
    /\ ~state.fatal
    /\ completed < MaxOps
    /\ \E i \in 0..(state.deck.numCards - 1) :
          LET c == [state.deck.cards[i] EXCEPT !.curTiming = 0]
              s1 == [state EXCEPT !.deck = RemoveCardFromSet(@, i)]
          IN /\ state' = Call("CardPlayedToField",
                              <<AddCardTo(s1, "field", c), s1.field.numCards>>)
             /\ call' = PhaseCall("Play", state, c.name, 0)
    /\ completed' = completed + 1
    /\ UNCHANGED <<pc, hitRoundX, config, card>>
    /\ UNCHANGED progVars

\* One case of the switch of SimDemon.
Cast ==
    /\ pc = "phase"
    /\ state.hp > 0
    /\ ~state.fatal
    /\ completed < MaxOps
    /\ \E a \in PhaseAbilities \cup LastAbilities :
          /\ state' = Call("DemonAbility", <<state, a>>)
          /\ call' = PhaseCall(a.type, state, "", a.level)
          /\ pc' = IF a \in LastAbilities THEN "last" ELSE "phase"
    /\ completed' = completed + 1
    /\ UNCHANGED <<hitRoundX, config, card>>
    /\ UNCHANGED progVars

\* The RemoveDeadCards that ends a phase.
EndPhase ==
    /\ pc = "phase"
    /\ state.hp > 0
    /\ ~state.fatal
    /\ completed < MaxOps
    /\ state' = Call("RemoveDeadCards", <<state>>)
    /\ call' = PhaseCall("RemoveDeadCards", state, "", 0)
    /\ completed' = completed + 1
    /\ UNCHANGED <<pc, hitRoundX, config, card>>
    /\ UNCHANGED progVars

\* HandleRunes, at the start of the player's phase.
Runes ==
    /\ pc = "phase"
    /\ state.hp > 0
    /\ ~state.fatal
    /\ state.numRunes > 0
    /\ completed < MaxOps
    /\ state' = Call("HandleRunes", <<state>>)
    /\ call' = PhaseCall("HandleRunes", state, "", 0)
    /\ completed' = completed + 1
    /\ UNCHANGED <<pc, hitRoundX, config, card>>
    /\ UNCHANGED progVars

\* A card of the player uses Reanimation.
Reanimate ==
    /\ pc = "phase"
    /\ state.hp > 0
    /\ ~state.fatal
    /\ completed < MaxOps
    /\ state' = Call("SimReanimate", <<state>>)
    /\ call' = PhaseCall("SimReanimate", state, "", 0)
    /\ pc' = "last"
    /\ completed' = completed + 1
    /\ UNCHANGED <<hitRoundX, config, card>>
    /\ UNCHANGED progVars

\* A card of the player uses Reincarnation at the level 1 or 2.
Reincarnate ==
    /\ pc = "phase"
    /\ state.hp > 0
    /\ ~state.fatal
    /\ completed < MaxOps
    /\ \E level \in 1..2 :
          /\ state' = Call("SimReincarnate", <<state, level>>)
          /\ call' = PhaseCall("SimReincarnate", state, "", level)
    /\ pc' = "last"
    /\ completed' = completed + 1
    /\ UNCHANGED <<hitRoundX, config, card>>
    /\ UNCHANGED progVars

PhaseNext == Play \/ Cast \/ EndPhase \/ Runes \/ Reanimate \/ Reincarnate

PhaseSpec == PhaseInit /\ [][PhaseNext]_vars

(***************************************************************************)
(* Properties of the phase specification.                                  *)
(***************************************************************************)
\* The number of attributes (type, level) the card c holds.
CountAttr(c, type, level) ==
    Cardinality({k \in 1..Len(c.attr) : c.attr[k] = Attr(type, level)})

FieldSlots(s) == 0..(s.field.numCards - 1)

\* The field of after has every card of the field of before in its slot, or
\* the dead card in its place.
InPlace(before, after) ==
    /\ after.field.numCards >= before.field.numCards
    /\ \A i \in FieldSlots(before) :
          \/ after.field.cards[i].name = before.field.cards[i].name
          \/ after.field.cards[i] = DeadCard

\* C17: an operation inside a phase (a card entering, an ability of the
\* demon, the runes, Reanimation, Reincarnation) leaves every card of the
\* field in its slot or puts the dead card in its place, and the field does
\* not shrink: only the RemoveDeadCards that ends the phase takes the dead
\* cards out.  A card that enters with Sacrifice breaks it: CardPlayedToField
\* calls RemoveDeadCards itself (sim.c 1884-1904).
C17_DeadCardsStayInPlace ==
    (call.op \notin {"none", "RemoveDeadCards"} /\ ~state.fatal) =>
        InPlace(call.before, state)

\* C18: when a card has entered the field (it is the last card of the field,
\* a card of the type played), it holds a buff of the kind and level of one
\* of its own class abilities only if another card of the field has that
\* ability at that level.  A card that enters with Sacrifice and a class
\* ability breaks it: HandleBuffsFromCardPlayed runs on the slot the card had
\* before RemoveDeadCards moved it (sim.c 1884-1904, 1950).
C18_NoBuffFromItself ==
    (call.op = "Play" /\ ~state.fatal /\ state.field.numCards > 0) =>
        LET last == state.field.numCards - 1
            c == F(state, last)
        IN c.name = call.name =>
              \A k \in 1..Len(c.attr) :
                 (/\ IsClassAbility(c.attr[k].type)
                  /\ CountAttr(c, BuffOf(c.attr[k].type), c.attr[k].level) > 0)
                    => \E j \in FieldSlots(state) \ {last} :
                          CountAttr(F(state, j), c.attr[k].type, c.attr[k].level) > 0

\* The slots of before whose living card the operation has replaced by the
\* dead card.
Removed(before, after) ==
    {i \in FieldSlots(before) :
        Alive(before.field.cards[i]) /\ after.field.cards[i] = DeadCard}

\* The buffs of the class abilities of the card in slot i of before are gone
\* from the other cards that were on the field: one entry each.
Stripped(before, after, i) ==
    LET v == before.field.cards[i]
    IN \A k \in 1..Len(v.attr) :
          IsClassAbility(v.attr[k].type) =>
             \A j \in FieldSlots(before) \ {i} :
                LET n == CountAttr(before.field.cards[j], BuffOf(v.attr[k].type),
                                   v.attr[k].level)
                IN \/ after.field.cards[j] = DeadCard
                   \/ CountAttr(after.field.cards[j], BuffOf(v.attr[k].type),
                                v.attr[k].level) = IF n > 0 THEN n - 1 ELSE 0

CanReanimate(s) == \E j \in 0..(s.grave.numCards - 1) : Reanimatable(s.grave.cards[j])

\* C19: when the demon's Exile or Destroy has removed a card from the field,
\* the buffs of its class abilities are stripped from the cards that were on
\* the field with it.  After Exile (RemoveCard with sendToGraveyard 0) no
\* Desperation ability has fired: the player's hp, the graveyard, the hand
\* and the number of cards on the field are as before, and the deck has one
\* card more, the exiled one.  After Destroy (sendToGraveyard 1) they have
\* fired: Desperation: Prayer has healed the player by its level up to
\* maxHp, Desperation: Reanimate has put a card of the graveyard on the
\* field when one could be reanimated, Desperation: Reincarnate has moved
\* cards of the graveyard to the deck, and the card is in the graveyard.
\* (A card that this card's own Desperation: Reanimate puts on the field was
\* not on the field with it and is not looked at here.)
C19_DesperationToGraveyardOnly ==
    (call.op \in {"EXILE", "DESTROY"} /\ ~state.fatal) =>
        \A i \in Removed(call.before, state) :
           LET b == call.before
               v == b.field.cards[i]
               reanimated == HasAttr(v, "D_REANIMATE") /\ CanReanimate(b)
               reincarnated == IF HasAttr(v, "D_REINCARNATE") /\ ~HasAttr(v, "D_REANIMATE")
                               THEN MIN(AttrLevel(v, "D_REINCARNATE"), b.grave.numCards)
                               ELSE 0
           IN /\ Stripped(b, state, i)
              /\ call.op = "EXILE" =>
                    /\ state.hp = b.hp
                    /\ state.grave = b.grave
                    /\ state.hand = b.hand
                    /\ state.field.numCards = b.field.numCards
                    /\ state.deck.numCards = b.deck.numCards + 1
                    /\ \E j \in 0..(state.deck.numCards - 1) :
                          state.deck.cards[j] = InitCard(v)
              /\ call.op = "DESTROY" =>
                    /\ state.hp = IF HasAttr(v, "D_PRAYER")
                                  THEN MIN(b.hp + AttrLevel(v, "D_PRAYER"), b.maxHp)
                                  ELSE b.hp
                    /\ state.field.numCards =
                          b.field.numCards + (IF reanimated THEN 1 ELSE 0)
                    /\ reanimated =>
                          /\ HasAttr(F(state, b.field.numCards), "REANIM_SICKNESS")
                          /\ \E j \in 0..(b.grave.numCards - 1) :
                                /\ Reanimatable(b.grave.cards[j])
                                /\ b.grave.cards[j].name = F(state, b.field.numCards).name
                    /\ state.deck.numCards = b.deck.numCards + reincarnated
                    /\ ~HasAttr(v, "D_REANIMATE") =>
                          state.grave.numCards = b.grave.numCards - reincarnated + 1
                    /\ state.grave.numCards > 0
                    /\ state.grave.cards[state.grave.numCards - 1] = InitCard(v)

\* C19 witness: the demon has exiled Mourner (Desperation: Prayer, Reanimate)
\* while the player was below maxHp and the graveyard held a card that can
\* be reanimated; the slot holds the dead card and hp is what it was.
C19_Witness ==
    /\ call.op = "EXILE"
    /\ call.before.field.numCards > 0
    /\ call.before.field.cards[0].name = "Mourner"
    /\ call.before.hp < call.before.maxHp
    /\ CanReanimate(call.before)
    /\ F(state, 0) = DeadCard
    /\ state.hp = call.before.hp
    /\ state.deck.numCards = call.before.deck.numCards + 1

NoLiving(s) == \A i \in FieldSlots(s) : ~Alive(F(s, i))

RunesSpent(s) ==
    /\ s.numRunes > 0
    /\ \A i \in 1..s.numRunes :
          s.runes[i].chargesUsed >= s.runes[i].maxCharges /\ s.runes[i].usedThisRound = 0

DeckSize == 17

CapacityDeck == [k \in 1..DeckSize |-> IF k = 1 THEN Catalogue.Warden ELSE Catalogue.Forester]

CapacityInit ==
    /\ config = Config(CapacityDeck, Catalogue.Imp, <<>>, 10, Ceiling)
    /\ state = AddCardTo(InitState([ZeroState EXCEPT !.seedW = Word(0, 1),
                                                     !.seedZ = Word(0, 2)],
                                   InitDefaultState(config)),
                         "field", InitCard(Catalogue.Squire))
    /\ pc = "adding"
    /\ call = PhaseCall("none", ZeroState, "", 0)
    /\ completed = 0
    /\ hitRoundX = FALSE
    /\ card = ZeroCard
    /\ NoProgram

\* AddAttr(c, attr) for the card of the field and a buff of the level 1.
AddAttribute ==
    /\ pc = "adding"
    /\ ~state.fatal
    /\ state' = AddAttrF(state, 0, Attr("FOREST_HP_BUFF", 1))
    /\ call' = PhaseCall("AddAttr", state, "field", 1)
    /\ UNCHANGED <<pc, completed, hitRoundX, config, card>>
    /\ UNCHANGED progVars

\* AddCardToSet(cs, c) for the deck or the graveyard.
AddCard ==
    /\ pc = "adding"
    /\ ~state.fatal
    /\ \E which \in {"deck", "grave"} :
          /\ state' = AddCardTo(state, which, InitCard(Catalogue.Squire))
          /\ call' = PhaseCall("AddCardToSet", state, which, 0)
    /\ UNCHANGED <<pc, completed, hitRoundX, config, card>>
    /\ UNCHANGED progVars

\* AddCardToSetRandomly(state, &state->deck, c).
AddCardRandomly ==
    /\ pc = "adding"
    /\ ~state.fatal
    /\ state' = AddCardToSetRandomly(state, "deck", InitCard(Catalogue.Squire))
    /\ call' = PhaseCall("AddCardToSetRandomly", state, "deck", 0)
    /\ UNCHANGED <<pc, completed, hitRoundX, config, card>>
    /\ UNCHANGED progVars

CapacityNext == AddAttribute \/ AddCard \/ AddCardRandomly

CapacitySpec == CapacityInit /\ [][CapacityNext]_vars

\* The set after is the set before with the card c put in slot r.
InsertedAt(before, after, r, c) ==
    /\ after.numCards = before.numCards + 1
    /\ after.cards[r] = c
    /\ \A i \in 0..(before.numCards - 1) :
          after.cards[IF i < r THEN i ELSE i + 1] = before.cards[i]

\* C21: AddAttr on a card that holds MAX_ATTR (40) attributes, AddCardToSet
\* and AddCardToSetRandomly on a set that holds MAX_CARDS_IN_SET (20) cards
\* end the program (exit(1)) and leave the card and the set as they were;
\* nothing else of the State changes but, for AddCardToSetRandomly, the
\* seed words.  Below the capacity the program goes on, the attribute is the
\* last one of the card and the attributes before it are kept; the card is
\* the last one of the set, or the one in a slot 0..numCards, and the cards
\* before it are kept in their order: the count has grown by one.
C21_FullEndsTheRun ==
    LET b == call.before
        squire == InitCard(Catalogue.Squire)
    IN /\ call.op = "AddAttr" =>
             IF Len(F(b, 0).attr) >= 40
             THEN state = [b EXCEPT !.fatal = TRUE]
             ELSE /\ ~state.fatal
                  /\ F(state, 0).attr = Append(F(b, 0).attr, Attr("FOREST_HP_BUFF", 1))
                  /\ state = [b EXCEPT !.field.cards[0].attr = F(state, 0).attr]
       /\ call.op = "AddCardToSet" =>
             IF b[call.name].numCards >= 20
             THEN state = [b EXCEPT !.fatal = TRUE]
             ELSE /\ ~state.fatal
                  /\ InsertedAt(b[call.name], state[call.name], b[call.name].numCards, squire)
                  /\ state = [b EXCEPT ![call.name] = state[call.name]]
       /\ call.op = "AddCardToSetRandomly" =>
             IF b.deck.numCards >= 20
             THEN state = [b EXCEPT !.fatal = TRUE, !.seedW = state.seedW,
                                    !.seedZ = state.seedZ]
             ELSE /\ ~state.fatal
                  /\ \E r \in 0..b.deck.numCards : InsertedAt(b.deck, state.deck, r, squire)
                  /\ state = [b EXCEPT !.deck = state.deck, !.seedW = state.seedW,
                                       !.seedZ = state.seedZ]

\* C21 witness: the deck held 20 cards when AddCardToSetRandomly was called;
\* the program has ended, the deck is as it was and a random number has
\* been drawn.
C21_Witness ==
    /\ call.op = "AddCardToSetRandomly"
    /\ call.before.deck.numCards = 20
    /\ state.fatal
    /\ state.deck = call.before.deck
    /\ state.seedW # call.before.seedW
    /\ Len(F(state, 0).attr) = 40

(***************************************************************************)
(* The turn specification: the loop of SimPlayer over the cards of the     *)
(* field, one SimPlayerCard per step.  The field is built by the           *)
(* operations of the phase specification (Play, Cast, EndPhase); then the  *)
(* player's phase starts (HandleRunes), the cards take their turns and the *)
(* phase ends (the backstab buffs are taken off, RemoveDeadCards).         *)
(*   pc = "phase"   the field is being built                               *)
(*        "turns"   inside the loop of SimPlayer                           *)
(*        "turned"  SimPlayer has returned                                 *)
(*   In the loop call = [op, before, name, level, turns]: before is the    *)
(*   State at the start of the loop, level the loop's i, and turns the     *)
(*   names of the cards SimPlayerCard has found alive in its slot, in the  *)
(*   order of the calls.                                                   *)
(***************************************************************************)
TurnConfigs ==
    {Config(<<Catalogue.Necromancer, Catalogue.Warden, Catalogue.Martyr>>, Catalogue.Imp,
            <<>>, 10, Ceiling),
     Config(<<Catalogue.Necromancer, Catalogue.Warden, Catalogue.Pilgrim>>, Catalogue.Imp,
            <<>>, 10, Ceiling)}

TurnInit ==
    /\ config \in TurnConfigs
    /\ state = InitState([ZeroState EXCEPT !.seedW = Word(0, 1), !.seedZ = Word(0, 2)],
                         InitDefaultState(config))
    /\ pc = "phase"
    /\ call = PhaseCall("none", ZeroState, "", 0)
    /\ completed = 0
    /\ hitRoundX = FALSE
    /\ card = ZeroCard
    /\ NoProgram

\* SimPlayer is entered (the phase before it has ended with RemoveDeadCards:
\* no dead card is on the field) and has called HandleRunes.
StartTurns ==
    /\ pc = "phase"
    /\ state.hp > 0
    /\ ~state.fatal
    /\ \A j \in 0..(state.field.numCards - 1) : F(state, j) # DeadCard
    /\ state' = Call("HandleRunes", <<state>>)
    /\ call' = [op |-> "SimPlayer", before |-> state', name |-> "", level |-> 0,
                turns |-> <<>>]
    /\ pc' = "turns"
    /\ UNCHANGED <<completed, hitRoundX, config, card>>
    /\ UNCHANGED progVars

\* One iteration of the loop: SimPlayerCard(state, i), and i++.
Turn ==
    /\ pc = "turns"
    /\ ~state.fatal
    /\ call.level < state.field.numCards
    /\ state' = Call("SimPlayerCard", <<state, call.level>>)
    /\ call' = [call EXCEPT !.level = @ + 1,
                            !.turns = IF F(state, call.level).hp > 0
                                      THEN Append(@, F(state, call.level).name)
                                      ELSE @]
    /\ UNCHANGED <<pc, completed, hitRoundX, config, card>>
    /\ UNCHANGED progVars

\* The loop is left and SimPlayer ends.
EndTurns ==
    /\ pc = "turns"
    /\ state.fatal \/ call.level >= state.field.numCards
    /\ state' = SimPlayerEnd(state)
    /\ pc' = "turned"
    /\ UNCHANGED <<call, completed, hitRoundX, config, card>>
    /\ UNCHANGED progVars

TurnNext == Play \/ Cast \/ EndPhase \/ StartTurns \/ Turn \/ EndTurns

TurnSpec == TurnInit /\ [][TurnNext]_vars

\* C22: when SimPlayer has returned, the loop has gone through the slots
\* from the left to the right; no card has had two turns, and every card
\* that is alive on the field has had its turn (SimPlayerCard was called
\* for the slot the card was in; a card that has just been reanimated
\* spends its turn on losing its sickness).  A card reanimated with
\* Sacrifice breaks it: RemoveDeadCards inside CardPlayedToField (sim.c
\* 1884-1904) moves the cards to the left under the loop.
C22_EveryLivingCardTakesItsTurn ==
    (pc = "turned" /\ ~state.fatal) =>
        /\ \A a, b \in 1..Len(call.turns) : call.turns[a] = call.turns[b] => a = b
        /\ \A j \in 0..(state.field.numCards - 1) :
              F(state, j).hp > 0 =>
                 \E a \in 1..Len(call.turns) : call.turns[a] = F(state, j).name

(***************************************************************************)
(* The draw specification: a battle as in the battle specification, with   *)
(* the player's branch of the loop body in its three parts: the timers and *)
(* the draw (DecreaseTimers, PlayCardsFromDeck), the cards leaving the     *)
(* hand (PlayCardsFromHand), and SimPlayer.  The deck is one whose cards   *)
(* wait long in the hand, with a card that dies at every hit of the demon  *)
(* and is resurrected.                                                     *)
(*   pc = "drawn"   PlayCardsFromDeck has returned                         *)
(*        "played"  PlayCardsFromHand has returned, the player alive       *)
(*        the others as in the battle specification                        *)
(*   call = [op, before]: before is the State PlayCardsFromDeck was        *)
(*   called with in this round.                                            *)
(***************************************************************************)
DrawDeck ==
    <<Catalogue.Phoenix, Catalogue.Ember, Catalogue.Sloth, Catalogue.Sloth,
      Catalogue.Sloth, Catalogue.Sloth, Catalogue.Sloth>>

DrawInit ==
    /\ config = Config(DrawDeck, Catalogue.Imp, <<>>, 100, Ceiling)
    /\ \E sd \in Seeds : state = [ZeroState EXCEPT !.seedW = sd.w, !.seedZ = sd.z]
    /\ pc = "start"
    /\ completed = 0
    /\ hitRoundX = FALSE
    /\ card = ZeroCard
    /\ call = [op |-> "none", before |-> ZeroState]
    /\ NoProgram

\* The head of the loop in the draw specification.
DrawEnterRound ==
    /\ pc = "head"
    /\ LoopCondition(state, config.maxRounds)
    /\ pc' = "body"
    /\ UNCHANGED <<state, completed, hitRoundX, config, card, call>>
    /\ UNCHANGED progVars

DrawLeaveLoop ==
    /\ pc = "head"
    /\ ~LoopCondition(state, config.maxRounds)
    /\ pc' = "after"
    /\ UNCHANGED <<state, completed, hitRoundX, config, card, call>>
    /\ UNCHANGED progVars

\* An even round: DecreaseTimers and PlayCardsFromDeck.
DrawCard ==
    /\ pc = "body"
    /\ IsPlayerRound(state)
    /\ call' = [op |-> "PlayCardsFromDeck", before |-> Call("DecreaseTimers", <<state>>)]
    /\ state' = Call("PlayCardsFromDeck", <<call'.before>>)
    /\ pc' = IF state'.fatal THEN "exit" ELSE "drawn"
    /\ hitRoundX' = (hitRoundX \/ state.round = config.roundX)
    /\ UNCHANGED <<completed, config, card>>
    /\ UNCHANGED progVars

\* PlayCardsFromHand, and the break when a card entering the field has
\* killed the player.
PlayHand ==
    /\ pc = "drawn"
    /\ state' = Call("PlayCardsFromHand", <<state>>)
    /\ pc' = IF state'.fatal THEN "exit" ELSE IF state'.hp <= 0 THEN "after" ELSE "played"
    /\ UNCHANGED <<completed, hitRoundX, config, card, call>>
    /\ UNCHANGED progVars

\* SimPlayer, and the end of the iteration.
PlayerTurn ==
    /\ pc = "played"
    /\ \E s2 \in {Call("SimPlayer", <<state>>)} : EndRound(s2)
    /\ UNCHANGED <<hitRoundX, config, card, call>>
    /\ UNCHANGED progVars

DrawNext ==
    \/ StartBattle
    \/ DrawEnterRound
    \/ DrawLeaveLoop
    \/ DemonRound
    \/ DrawCard
    \/ PlayHand
    \/ PlayerTurn
    \/ Return

DrawSpec == DrawInit /\ [][DrawNext]_vars

\* C23: in a player's phase PlayCardsFromDeck draws a card exactly when the
\* deck is not empty and the hand holds fewer than 5 cards; it is the last
\* card of the deck, it becomes the last card of the hand and nothing else
\* changes.  No other step of the battle (the cards leaving the hand, the
\* player's and the demon's round, with their deaths and resurrections)
\* makes the deck smaller: one card at most is drawn in a phase.  And after
\* every step the hand holds 5 cards at most.
C23_DrawOneHandOfFive ==
    [][/\ state'.hand.numCards <= 5
       /\ (pc = "body" /\ IsPlayerRound(state)) =>
             LET b == call'.before
                 tail == b.deck.numCards - 1
             IN IF b.deck.numCards > 0 /\ b.hand.numCards < 5
                THEN /\ state'.deck = RemoveCardFromSet(b.deck, tail)
                     /\ state'.hand.numCards = b.hand.numCards + 1
                     /\ state'.hand.cards[b.hand.numCards] = b.deck.cards[tail]
                     /\ state' = [b EXCEPT !.deck = state'.deck,
                                           !.hand.numCards = @ + 1,
                                           !.hand.cards[b.hand.numCards] = b.deck.cards[tail]]
                ELSE state' = b
       /\ (pc \in {"head", "drawn", "played", "after"} \/ (pc = "body" /\ ~IsPlayerRound(state)))
             => state'.deck.numCards >= state.deck.numCards]_vars

\* C23 witness: the hand was full and the deck was not empty when
\* PlayCardsFromDeck was called; no card has been drawn.
C23_Witness ==
    /\ pc = "drawn"
    /\ call.before.hand.numCards = 5
    /\ call.before.deck.numCards > 0
    /\ state.hand.numCards = 5
    /\ state.deck = call.before.deck

(***************************************************************************)
(* The attack specification: the demon's physical attack and the hit on a  *)
(* card.  The field is built as in the phase specification (Play,          *)
(* EndPhase) and the demon's Destroy leaves dead cards on it; then the     *)
(* demon attacks (SimDemonAttack) or one card of the field is hit          *)
(* (DamageCard, as the chain attack does).                                 *)
(*   pc = "phase"  the field is being built                                *)
(*        "last"   after the attack or the hit                             *)
(*   call = [op, before, name, level, slot, ret]: level is the damage the  *)
(*   operation was called with, slot the slot of the card hit and ret the  *)
(*   value DamageCard has returned.                                        *)
(***************************************************************************)
AttackConfigs ==
    {Config(<<Catalogue.Squire, Catalogue.Squire, Catalogue.Sentinel, Catalogue.Dancer,
              Catalogue.Dancer>>, Catalogue.Fiend, <<>>, 10, Ceiling),
     Config(<<Catalogue.Squire, Catalogue.Squire, Catalogue.Sentinel>>, Catalogue.Imp,
            <<>>, 10, Ceiling)}

AttackDmgs == {1, 2, 4}

AttackInit ==
    /\ config \in AttackConfigs
    /\ state = InitState([ZeroState EXCEPT !.seedW = Word(0, 1), !.seedZ = Word(0, 2)],
                         InitDefaultState(config))
    /\ pc = "phase"
    /\ call = PhaseCall("none", ZeroState, "", 0)
    /\ completed = 0
    /\ hitRoundX = FALSE
    /\ card = ZeroCard
    /\ NoProgram

\* The demon's Destroy, before its attack.
Destroy ==
    /\ pc = "phase"
    /\ state.hp > 0
    /\ ~state.fatal
    /\ completed < MaxOps
    /\ state' = Call("DemonAbility", <<state, Attr("DESTROY", 0)>>)
    /\ call' = PhaseCall("DESTROY", state, "", 0)
    /\ completed' = completed + 1
    /\ UNCHANGED <<pc, hitRoundX, config, card>>
    /\ UNCHANGED progVars

\* SimDemonAttack(state, dmg).
Attack ==
    /\ pc = "phase"
    /\ state.hp > 0
    /\ ~state.fatal
    /\ \E dmg \in AttackDmgs :
          /\ state' = Call("SimDemonAttack", <<state, dmg>>)
          /\ call' = [op |-> "SimDemonAttack", before |-> state, name |-> "",
                      level |-> dmg, slot |-> 0, ret |-> 0]
    /\ pc' = "last"
    /\ UNCHANGED <<completed, hitRoundX, config, card>>
    /\ UNCHANGED progVars

\* DamageCard(state, c, dmg) for a living card c of the field.
Hit ==
    /\ pc = "phase"
    /\ state.hp > 0
    /\ ~state.fatal
    /\ \E dmg \in AttackDmgs, c \in 0..(state.field.numCards - 1) :
          /\ F(state, c).hp > 0
          /\ LET hit == Call("DamageCard", <<state, c, dmg>>)
             IN /\ state' = hit.s
                /\ call' = [op |-> "DamageCard", before |-> state, name |-> "",
                            level |-> dmg, slot |-> c, ret |-> hit.dmg]
    /\ pc' = "last"
    /\ UNCHANGED <<completed, hitRoundX, config, card>>
    /\ UNCHANGED progVars

AttackNext == Play \/ Destroy \/ EndPhase \/ Attack \/ Hit

AttackSpec == AttackInit /\ [][AttackNext]_vars

\* A hit of dmg on the card in slot c of the State b is avoided: Nimble Soul
\* or Dodge rolls below its level, or Parry, Stonewall, Ice Shield and
\* Arctic Freeze leave no damage.
Avoided(b, c, dmg) ==
    LET v == F(b, c)
        nimble == HasAttr(v, "NIMBLE_SOUL")
        b1 == IF nimble THEN myRand(b) ELSE b
    IN \/ nimble /\ Rnd(b, 100) < AttrLevel(v, "NIMBLE_SOUL")
       \/ HasAttr(v, "DODGE") /\ Rnd(b1, 100) < AttrLevel(v, "DODGE")
       \/ ReducePhysDmg(v, dmg) <= 0

\* a is b but for the two seed words.
SameButSeeds(b, a) == a = [b EXCEPT !.seedW = a.seedW, !.seedZ = a.seedZ]

\* C24: when the hit on a card is avoided by a roll of Nimble Soul or Dodge,
\* or its defensive attributes leave no damage, DamageCard returns 0 and the
\* State is what it was but for the seed words: the card (hp, attack,
\* attributes: no Craze, no Lacerate), the demon (no Counterattack), the
\* player and the four sets are unchanged.  Otherwise it returns the damage
\* left, more than 0, and the card has lost that much hp or is dead.
C24_AvoidedHitChangesNothing ==
    call.op = "DamageCard" =>
        LET b == call.before
            v == F(b, call.slot)
        IN IF Avoided(b, call.slot, call.level)
           THEN /\ call.ret = 0
                /\ SameButSeeds(b, state)
                /\ (~HasAttr(v, "NIMBLE_SOUL") /\ ~HasAttr(v, "DODGE")) => state = b
           ELSE /\ call.ret > 0
                /\ call.ret = ReducePhysDmg(v, call.level)
                /\ IF v.hp <= call.ret THEN F(state, call.slot) = DeadCard
                   ELSE F(state, call.slot).hp = v.hp - call.ret

\* C24 witness: Sentinel (Parry 2, Craze 1) has been hit for 2 under a demon
\* with Lacerate: 0 is returned and nothing has changed.
C24_Witness ==
    /\ call.op = "DamageCard"
    /\ F(call.before, call.slot).name = "Sentinel"
    /\ call.level = 2
    /\ HasAttr(call.before.demon, "LACERATE")
    /\ call.ret = 0
    /\ state = call.before

\* The card in slot c after the operation is what a hit of dmg on the card
\* v leaves: v itself if the hit may have been avoided, or v with the damage
\* taken off (and what the damage triggers: Craze, Lacerate), or the dead
\* card.
HitLeaves(after, c, v, dmg) ==
    LET left == ReducePhysDmg(v, dmg)
    IN \/ /\ F(after, c) = v
          /\ left <= 0 \/ HasAttr(v, "DODGE") \/ HasAttr(v, "NIMBLE_SOUL")
       \/ /\ left > 0
          /\ IF v.hp <= left THEN F(after, c) = DeadCard
             ELSE /\ F(after, c).hp = v.hp - left
                  /\ F(after, c).name = v.name

\* C25, as the spec states it: whenever the field is not empty the attack
\* leaves the player's hp as it is.
C25_AsStated ==
    (call.op = "SimDemonAttack" /\ call.before.field.numCards > 0) =>
        state.hp = call.before.hp

\* C25: SimDemonAttack hits the card in slot 0 when the field is not empty
\* and that card is not a dead card (it does not carry DEAD): the player's
\* hp is unchanged and the card is left as a hit leaves it.  When the field
\* is empty, or when slot 0 holds a dead card (a card that died earlier in
\* the demon's round, RemoveDeadCards not yet called), the player is hit,
\* whatever living cards stand behind: hp goes down by the damage (no card
\* of the field has Guard here) and the field is unchanged.
C25_FrontCardOrPlayer ==
    call.op = "SimDemonAttack" =>
        LET b == call.before
        IN IF b.field.numCards > 0 /\ ~HasAttr(F(b, 0), "DEAD")
           THEN /\ state.hp = b.hp
                /\ HitLeaves(state, 0, F(b, 0), call.level)
           ELSE /\ state.hp = b.hp - call.level
                /\ state = [b EXCEPT !.hp = state.hp]

\* C25 witness: the demon has attacked a field whose slot 0 holds a dead
\* card, with a living card behind it; the player has taken the damage.
C25_Witness ==
    /\ call.op = "SimDemonAttack"
    /\ call.before.field.numCards >= 2
    /\ F(call.before, 0) = DeadCard
    /\ F(call.before, 1).hp > 0
    /\ state.hp = call.before.hp - call.level
    /\ state.field = call.before.field

\* C26: after SimDemonAttack has hit the card in slot 0, the other cards of
\* the field are as they were unless the demon has Chain Attack and the
\* hit has done damage (the front card has lost hp or is dead).  Then every
\* other card that was alive with the name of the front card is left as a
\* hit of (damage * level) / 100 leaves it (Dodge and Parry included), and
\* every card of another name, and every dead card, is as it was.
C26_ChainOnSameName ==
    (call.op = "SimDemonAttack" /\ call.before.field.numCards > 0
        /\ ~HasAttr(F(call.before, 0), "DEAD")) =>
        LET b == call.before
            front == F(b, 0)
            done == IF F(state, 0) = DeadCard
                    THEN ReducePhysDmg(front, call.level)
                    ELSE front.hp - F(state, 0).hp
            chained == done > 0 /\ HasAttr(b.demon, "CHAIN_ATTACK")
            newDmg == CDiv(done * AttrLevel(b.demon, "CHAIN_ATTACK"), 100)
        IN /\ state.field.numCards = b.field.numCards
           /\ \A i \in 1..(b.field.numCards - 1) :
                 IF chained /\ F(b, i).hp > 0 /\ F(b, i).name = front.name
                 THEN HitLeaves(state, i, F(b, i), newDmg)
                 ELSE F(state, i) = F(b, i)
           /\ (chained /\ \E i \in 1..(b.field.numCards - 1) :
                             /\ F(b, i).hp > 0
                             /\ F(b, i).name = front.name
                             /\ ~HasAttr(F(b, i), "DODGE"))
                 => \E i \in 1..(b.field.numCards - 1) : F(state, i) # F(b, i)

\* C26 witness: the demon with Chain Attack 150 has hit Squire in slot 0 for
\* 2; the other Squire has taken 3 and is dead, and Sentinel, between the
\* two, is as it was.
C26_Witness ==
    /\ call.op = "SimDemonAttack"
    /\ call.level = 2
    /\ call.before.field.numCards = 3
    /\ F(call.before, 0).name = "Squire"
    /\ F(call.before, 1).name = "Sentinel"
    /\ F(call.before, 2).name = "Squire"
    /\ F(state, 0).hp = 1
    /\ F(state, 1) = F(call.before, 1)
    /\ F(state, 2) = DeadCard

(***************************************************************************)
(* The rune specification: a battle as in the battle specification, with   *)
(* runes of the table allRunes and the player's branch of the loop body in *)
(* three parts: the cards are played (PlayCards), the runes are handled    *)
(* (HandleRunes, the first statement of SimPlayer), and the cards of the   *)
(* field take their turns (the rest of SimPlayer).                         *)
(*   pc = "played"  PlayCards has returned, the player alive               *)
(*        "runes"   HandleRunes has returned                               *)
(*        the others as in the battle specification                        *)
(*   call = [op, before]: before is the State HandleRunes was called with  *)
(*   in this round.                                                        *)
(***************************************************************************)
Runes4 ==
    [ThunderShield |-> Rune("Thunder Shield", "THUNDER_SHIELD", 200, 4),
     Tsunami       |-> Rune("Tsunami", "TSUNAMI", 80, 4),
     Leaf          |-> Rune("Leaf", "LEAF", 240, 4),
     Revival       |-> Rune("Revival", "REVIVAL", 120, 4),
     SpringBreeze  |-> Rune("Spring Breeze", "SPRING_BREEZE", 240, 4)]

RuneConfigs ==
    {Config(<<Catalogue.Forester, Catalogue.Forester, Catalogue.Warden>>, Catalogue.Imp,
            <<Runes4.ThunderShield, Runes4.Leaf, Runes4.Tsunami>>, 100, Ceiling),
     Config(<<Catalogue.Forester, Catalogue.Forester, Catalogue.Warden>>, Catalogue.Shade,
            <<Runes4.Tsunami, Runes4.ThunderShield>>, 100, Ceiling),
     Config(<<Catalogue.Forester, Catalogue.Martyr, Catalogue.Martyr, Catalogue.Warden>>,
            Catalogue.Imp, <<Runes4.SpringBreeze, Runes4.Revival>>, 100, Ceiling),
     Config(<<Catalogue.Necromancer, Catalogue.Necromancer, Catalogue.Necromancer,
              Catalogue.Martyr>>, Catalogue.Brute, <<>>, 100, Ceiling)}

RuneInit ==
    /\ config \in RuneConfigs
    /\ \E sd \in Seeds : state = [ZeroState EXCEPT !.seedW = sd.w, !.seedZ = sd.z]
    /\ pc = "start"
    /\ completed = 0
    /\ hitRoundX = FALSE
    /\ card = ZeroCard
    /\ call = [op |-> "none", before |-> ZeroState]
    /\ NoProgram

\* An even round: PlayCards, and the break when a card entering the field
\* has killed the player.
RunePlayCards ==
    /\ pc = "body"
    /\ IsPlayerRound(state)
    /\ state' = Call("PlayCards", <<state>>)
    /\ pc' = IF state'.fatal THEN "exit" ELSE IF state'.hp <= 0 THEN "after" ELSE "played"
    /\ hitRoundX' = (hitRoundX \/ state.round = config.roundX)
    /\ UNCHANGED <<completed, config, card, call>>
    /\ UNCHANGED progVars

\* The first statement of SimPlayer: HandleRunes.
RunesHandled ==
    /\ pc = "played"
    /\ state' = Call("HandleRunes", <<state>>)
    /\ call' = [op |-> "HandleRunes", before |-> state]
    /\ pc' = IF state'.fatal THEN "exit" ELSE "runes"
    /\ UNCHANGED <<completed, hitRoundX, config, card>>
    /\ UNCHANGED progVars

\* The rest of SimPlayer, and the end of the iteration.
RuneTurns ==
    /\ pc = "runes"
    /\ \E s2 \in {SimPlayerEnd(PlayerCardsLoop(state, 0))} : EndRound(s2)
    /\ UNCHANGED <<hitRoundX, config, card, call>>
    /\ UNCHANGED progVars

RuneNext ==
    \/ StartBattle
    \/ DrawEnterRound
    \/ DrawLeaveLoop
    \/ DemonRound
    \/ RunePlayCards
    \/ RunesHandled
    \/ RuneTurns
    \/ Return

RuneSpec == RuneInit /\ [][RuneNext]_vars

\* The number of attributes of the type on the card.
CountType(c, type) == Cardinality({k \in 1..Len(c.attr) : c.attr[k].type = type})

\* The runes whose activation puts their attribute on the cards of the field.
BuffRunes == RoundBuffRunes \cup {"SPRING_BREEZE"}

\* C27: in every step of the battle, for every rune: chargesUsed stays
\* between 0 and maxCharges; it is raised by HandleRunes only, by one, and
\* that is an activation: a rune is flagged used this round only when its
\* charge has been counted in this call, and Leaf's damage is done only with
\* a charge counted.  A rune with chargesUsed = maxCharges is not activated
\* again: its charges and the demon's hp stay, its flag is 0 and no card of
\* the field carries its attribute after the call.
C27_ChargesBounded ==
    [][pc # "start" =>
        /\ state'.numRunes = state.numRunes
        /\ \A i \in 1..state.numRunes :
              LET r == state.runes[i]
                  q == state'.runes[i]
              IN /\ q.maxCharges = r.maxCharges
                 /\ q.attr = r.attr
                 /\ 0 <= q.chargesUsed
                 /\ q.chargesUsed <= q.maxCharges
                 /\ q.chargesUsed \in {r.chargesUsed, r.chargesUsed + 1}
                 /\ pc # "played" => q = r
                 /\ pc = "played" =>
                       /\ q.usedThisRound = 1 => q.chargesUsed = r.chargesUsed + 1
                       /\ (q.chargesUsed = r.chargesUsed /\ r.attr.type = "LEAF")
                             => state'.demon.hp = state.demon.hp
                       /\ r.chargesUsed = r.maxCharges =>
                             /\ q.chargesUsed = r.chargesUsed
                             /\ q.usedThisRound = 0
                             /\ \A j \in FieldSlots(state') :
                                   ~HasAttr(F(state', j), r.attr.type)]_vars

\* C27 witness: Thunder Shield had used its 4 charges and two Forest cards
\* stood on the field (its condition held) when HandleRunes was called; the
\* rune has not been activated.
C27_Witness ==
    /\ pc = "runes"
    /\ \E i \in 1..state.numRunes :
          /\ state.runes[i].attr.type = "THUNDER_SHIELD"
          /\ call.before.runes[i].chargesUsed = 4
          /\ call.before.runes[i].usedThisRound = 1
          /\ RuneCondition(call.before, "THUNDER_SHIELD")
          /\ state.runes[i].chargesUsed = 4
          /\ state.runes[i].usedThisRound = 0
          /\ \A j \in FieldSlots(state) : ~HasAttr(F(state, j), "THUNDER_SHIELD")

\* C28: in every state of the battle a card of the field carries the
\* attribute of a rune only if the rune is flagged used this round, and
\* then once only.  After HandleRunes a rune is flagged exactly when it had
\* a charge left and its condition held at the call, whether it was flagged
\* before or not (the deactivation comes first, the activation after it),
\* and then every card of the field carries its attribute; the cards carry
\* no attribute of a rune that is not flagged.
C28_BuffOnlyWhileActive ==
    \A i \in 1..state.numRunes :
        LET r == state.runes[i]
        IN r.attr.type \in BuffRunes =>
              /\ \A j \in FieldSlots(state) :
                    /\ HasAttr(F(state, j), r.attr.type) => r.usedThisRound = 1
                    /\ CountType(F(state, j), r.attr.type) <= 1
              /\ (pc = "runes" /\ call.op = "HandleRunes") =>
                    LET b == call.before
                    IN /\ r.usedThisRound = 1 <=>
                             /\ b.runes[i].chargesUsed < b.runes[i].maxCharges
                             /\ RuneCondition(b, r.attr.type)
                       /\ r.usedThisRound = 1 =>
                             \A j \in FieldSlots(state) :
                                 CountType(F(state, j), r.attr.type) = 1

\* C28 witness: Thunder Shield was active in the round before and is
\* activated again: the cards of the field carried its attribute at the
\* call and carry it once after it.
C28_Witness ==
    /\ pc = "runes"
    /\ \E i \in 1..state.numRunes :
          /\ state.runes[i].attr.type = "THUNDER_SHIELD"
          /\ call.before.runes[i].usedThisRound = 1
          /\ state.runes[i].usedThisRound = 1
          /\ state.runes[i].chargesUsed = call.before.runes[i].chargesUsed + 1
          /\ state.field.numCards >= 2
          /\ \A j \in FieldSlots(state) :
                /\ CountType(F(call.before, j), "THUNDER_SHIELD") = 1
                /\ CountType(F(state, j), "THUNDER_SHIELD") = 1

(***************************************************************************)
(* The selection specification: the field is built as in the phase         *)
(* specification (Play, EndPhase) and its cards are wounded (DamageCard);  *)
(* then the demon snipes (the SNIPE case of SimDemon) or a card heals      *)
(* (SimHealing): both select their card with FindLowestHpCard.             *)
(*   call = [op, before, name, level, slot, ret] as in the attack          *)
(*   specification.                                                        *)
(***************************************************************************)
SelectConfig ==
    Config(<<Catalogue.Squire, Catalogue.Squire, Catalogue.Squire, Catalogue.Forester>>,
           Catalogue.Imp, <<>>, 10, Ceiling)

SelectInit ==
    /\ config = SelectConfig
    /\ \E sd \in Seeds :
          state = InitState([ZeroState EXCEPT !.seedW = sd.w, !.seedZ = sd.z],
                            InitDefaultState(config))
    /\ pc = "phase"
    /\ call = PhaseCall("none", ZeroState, "", 0)
    /\ completed = 0
    /\ hitRoundX = FALSE
    /\ card = ZeroCard
    /\ NoProgram

\* A living card of the field is hit: DamageCard(state, c, dmg).
Wound ==
    /\ pc = "phase"
    /\ state.hp > 0
    /\ ~state.fatal
    /\ completed < MaxOps
    /\ \E dmg \in 1..2, c \in 0..(state.field.numCards - 1) :
          /\ F(state, c).hp > 0
          /\ LET hit == Call("DamageCard", <<state, c, dmg>>)
             IN /\ state' = hit.s
                /\ call' = [op |-> "DamageCard", before |-> state, name |-> "",
                            level |-> dmg, slot |-> c, ret |-> hit.dmg]
    /\ completed' = completed + 1
    /\ UNCHANGED <<pc, hitRoundX, config, card>>
    /\ UNCHANGED progVars

\* The SNIPE case of the switch of SimDemon, at the level 1.
Snipe ==
    /\ pc = "phase"
    /\ state.hp > 0
    /\ ~state.fatal
    /\ state' = Call("DemonAbility", <<state, Attr("SNIPE", 1)>>)
    /\ call' = PhaseCall("SNIPE", state, "", 1)
    /\ pc' = "last"
    /\ UNCHANGED <<completed, hitRoundX, config, card>>
    /\ UNCHANGED progVars

\* SimHealing(state, name, heal).
Heal ==
    /\ pc = "phase"
    /\ state.hp > 0
    /\ ~state.fatal
    /\ \E heal \in 1..2 :
          /\ state' = Call("SimHealing", <<state, heal>>)
          /\ call' = PhaseCall("SimHealing", state, "", heal)
    /\ pc' = "last"
    /\ UNCHANGED <<completed, hitRoundX, config, card>>
    /\ UNCHANGED progVars

SelectNext == Play \/ Wound \/ EndPhase \/ Snipe \/ Heal

SelectSpec == SelectInit /\ [][SelectNext]_vars

\* The slots of the living cards of the field.
LivingSlots(s) == {i \in FieldSlots(s) : F(s, i).hp > 0}

\* The living cards with the lowest hp, and those that took the most damage.
LowestHpSlots(s) ==
    {i \in LivingSlots(s) : \A j \in LivingSlots(s) : F(s, j).hp >= F(s, i).hp}

MostDamagedSlots(s) ==
    {i \in LivingSlots(s) :
        \A j \in LivingSlots(s) : F(s, j).maxHp - F(s, j).hp <= F(s, i).maxHp - F(s, i).hp}

\* The slot number n (from 0) of the set S, in the order of the field.
NthSlot(S, n) == CHOOSE i \in S : Cardinality({j \in S : j < i}) = n

\* The card in slot k of the field, and no other, has been changed.
OnlySlotChanged(b, a, k) ==
    /\ a.field.numCards = b.field.numCards
    /\ F(a, k) # F(b, k)
    /\ \A j \in FieldSlots(b) : j # k => F(a, j) = F(b, j)

\* C29: when two or more living cards of the field share the lowest hp,
\* the demon's snipe hits the last of them in the order of the field, and
\* no other card, wherever the tied cards stand.
C29_SnipeHitsLastTied ==
    (call.op = "SNIPE" /\ Cardinality(LowestHpSlots(call.before)) >= 2) =>
        LET tied == LowestHpSlots(call.before)
        IN OnlySlotChanged(call.before, state, NthSlot(tied, Cardinality(tied) - 1))

\* C30: when two or more living cards of the field share the most damage
\* taken (more than 0), SimHealing heals the one the random draw names, card
\* number Rnd(state, numLowest) of the tied cards in the order of the
\* field, and no other card.
C30_HealsTheDrawnCard ==
    (/\ call.op = "SimHealing"
     /\ Cardinality(MostDamagedSlots(call.before)) >= 2
     /\ \E i \in MostDamagedSlots(call.before) :
           F(call.before, i).hp < F(call.before, i).maxHp) =>
        LET tied == MostDamagedSlots(call.before)
            k == NthSlot(tied, Rnd(call.before, Cardinality(tied)))
        IN /\ OnlySlotChanged(call.before, state, k)
           /\ F(state, k).hp > F(call.before, k).hp

(***************************************************************************)
(* The picks of PickNCards, on the pick specification.                     *)
(***************************************************************************)
\* A draw without replacement over all the living cards: draw number i
\* takes one of the numAlive - i cards not yet picked.
RECURSIVE DrawOverAll(_, _, _, _)
DrawOverAll(sr, n, numAlive, i) ==
    IF i >= n THEN sr
    ELSE LET r == Rnd(sr.s, numAlive - i)
         IN DrawOverAll([s |-> myRand(sr.s),
                         ret |-> IF r # 0 THEN Swap(sr.ret, i, i + r) ELSE sr.ret],
                        n, numAlive, i + 1)

\* C31: when PickNCards is asked for n cards, n smaller than the number of
\* living cards, the cards it returns are those a draw without replacement
\* over all the living cards takes with the draws of the State: any living
\* card, the rightmost included, is picked when the draws name it.
C31_DrawsOverAllLiving ==
    [][(pc = "pick" /\ call'.op = "PickNCards") =>
          LET alive == AliveIndices(state.field, 0, <<>>)
              numAlive == Len(alive)
              n == call'.n
              all == DrawOverAll([s |-> state, ret |-> alive], n, numAlive, 0)
          IN (0 < n /\ n < numAlive) =>
                {call'.ret[k] : k \in 1..call'.cnt} = {all.ret[k] : k \in 1..n}]_vars

(***************************************************************************)
(* Reincarnation, on the phase specification.                              *)
(***************************************************************************)
\* The cards of a set from the C index a on, k of them, in order.
CardsFrom(cs, a, k) == [x \in 1..k |-> cs.cards[a + x - 1]]

\* C32: SimReincarnate at the level L moves k = min(L, cards in the
\* graveyard) cards: the first k cards of the graveyard become the last k
\* cards of the deck, in the order of the graveyard; the cards that stay in
\* the graveyard and the cards the deck held keep their order, nothing else
\* of the State changes, and the next card drawn (PlayCardsFromDeck) is the
\* last card reincarnated.
C32_ReincarnateFrontToTail ==
    call.op = "SimReincarnate" =>
        LET b == call.before
            k == MIN(call.level, b.grave.numCards)
        IN /\ state.grave.numCards = b.grave.numCards - k
           /\ state.deck.numCards = b.deck.numCards + k
           /\ CardsFrom(state.grave, 0, state.grave.numCards)
                 = CardsFrom(b.grave, k, b.grave.numCards - k)
           /\ CardsFrom(state.deck, 0, b.deck.numCards)
                 = CardsFrom(b.deck, 0, b.deck.numCards)
           /\ CardsFrom(state.deck, b.deck.numCards, k) = CardsFrom(b.grave, 0, k)
           /\ [state EXCEPT !.grave = b.grave, !.deck = b.deck] = b
           /\ k > 0 =>
                 LET d == PlayCardsFromDeck(state)
                 IN /\ d.hand.numCards = state.hand.numCards + 1
                    /\ d.hand.cards[state.hand.numCards] = b.grave.cards[k - 1]

\* C32 witness: two cards of different names have been reincarnated out of
\* a graveyard of two or more, into a deck that held a card.
C32_Witness ==
    /\ call.op = "SimReincarnate"
    /\ call.level = 2
    /\ call.before.grave.numCards >= 2
    /\ call.before.deck.numCards >= 1
    /\ call.before.grave.cards[0].name # call.before.grave.cards[1].name
    /\ state.deck.cards[state.deck.numCards - 1] = call.before.grave.cards[1]
    /\ state.deck.cards[state.deck.numCards - 2] = call.before.grave.cards[0]

(***************************************************************************)
(* Reanimation sickness, on the battles of the rune specification.         *)
(***************************************************************************)
Sick(c) == c.hp > 0 /\ HasAttr(c, "REANIM_SICKNESS")

\* C33: the loop of SimPlayer reaches every reanimated card and takes its
\* sickness off: when the cards of the field have had their turns no living
\* card of the field carries reanimation sickness (the card acts in its
\* next turn), and a card that carries the sickness makes no attack: with a
\* deck whose cards do damage by their attack only, a phase that leaves a
\* sick card in slot 0 has done no damage.
C33_SickCardTakesNoTurn ==
    [][(pc = "runes" /\ pc' = "head") =>
          /\ \A j \in FieldSlots(state') : ~Sick(F(state', j))
          /\ (state'.field.numCards > 0 /\ Sick(F(state', 0)))
                => state'.dmgDone = state.dmgDone]_vars

(***************************************************************************)
(* The round specification: a battle as in the rune specification, with    *)
(* SimPlayer in three parts: HandleRunes, the loop over the cards of the   *)
(* field, and the end of the phase (the backstab buffs are taken off,      *)
(* RemoveDeadCards).                                                       *)
(*   pc = "played"  PlayCards has returned, the player alive               *)
(*        "runes"   HandleRunes has returned                               *)
(*        "turned"  the loop over the cards has ended                      *)
(*        the others as in the battle specification                        *)
(*   call = [op, before]: the last part of SimPlayer that has run and the  *)
(*   State it has run on.                                                  *)
(***************************************************************************)
RoundConfigs ==
    {Config(<<Catalogue.Rogue, Catalogue.Rogue, Catalogue.Mourner, Catalogue.Forester>>,
            Catalogue.Brute, <<>>, 100, Ceiling),
     Config(<<Catalogue.Rogue, Catalogue.Squire, Catalogue.Rogue>>, Catalogue.Thorn,
            <<>>, 100, Ceiling),
     Config(<<Catalogue.Mourner, Catalogue.Martyr, Catalogue.Mourner, Catalogue.Martyr>>,
            Catalogue.Brute, <<>>, 100, Ceiling),
     Config(<<Catalogue.Warden, Catalogue.Mourner, Catalogue.Mourner>>, Catalogue.Brute,
            <<>>, 100, Ceiling),
     Config(<<Catalogue.Archer, Catalogue.Dancer, Catalogue.Forester>>, Catalogue.Imp,
            <<Runes4.ThunderShield, Runes4.Leaf>>, 100, ShortBattle)}

RoundInit ==
    /\ config \in RoundConfigs
    /\ \E sd \in Seeds : state = [ZeroState EXCEPT !.seedW = sd.w, !.seedZ = sd.z]
    /\ pc = "start"
    /\ completed = 0
    /\ hitRoundX = FALSE
    /\ card = ZeroCard
    /\ call = [op |-> "none", before |-> ZeroState]
    /\ NoProgram

\* The loop of SimPlayer over the cards of the field.
CardsTurns ==
    /\ pc = "runes"
    /\ state' = PlayerCardsLoop(state, 0)
    /\ call' = [op |-> "PlayerCardsLoop", before |-> state]
    /\ pc' = "turned"
    /\ UNCHANGED <<completed, hitRoundX, config, card>>
    /\ UNCHANGED progVars

\* The end of SimPlayer, and the end of the iteration.
PhaseEnd ==
    /\ pc = "turned"
    /\ \E s2 \in {SimPlayerEnd(state)} : EndRound(s2)
    /\ call' = [op |-> "SimPlayerEnd", before |-> state]
    /\ UNCHANGED <<hitRoundX, config, card>>
    /\ UNCHANGED progVars

\* The body in an odd round: DecreaseTimers and the demon's round, and the
\* end of the iteration.
BossRound ==
    /\ pc = "body"
    /\ ~IsPlayerRound(state)
    /\ \E s1 \in {Call("SimDemon", <<Call("DecreaseTimers", <<state>>)>>)} : EndRound(s1)
    /\ call' = [op |-> "SimDemon", before |-> state]
    /\ hitRoundX' = (hitRoundX \/ state.round = config.roundX)
    /\ UNCHANGED <<config, card>>
    /\ UNCHANGED progVars

RoundNext ==
    \/ StartBattle
    \/ DrawEnterRound
    \/ DrawLeaveLoop
    \/ BossRound
    \/ RunePlayCards
    \/ RunesHandled
    \/ CardsTurns
    \/ PhaseEnd
    \/ Return

RoundSpec == RoundInit /\ [][RoundNext]_vars

\* The cards of a set that are not the placeholder of a dead card, in order.
Undead(cs) == SelectSeq(CardsFrom(cs, 0, cs.numCards), LAMBDA c : ~HasAttr(c, "DEAD"))

\* The card without its backstab buff, its attack lowered by the buff's level.
Unbuffed(c) ==
    IF HasAttr(c, "BACKSTAB_BUFF")
    THEN [c EXCEPT !.attr = SelectSeq(@, LAMBDA a : a.type # "BACKSTAB_BUFF"),
                   !.atk = @ - AttrLevel(c, "BACKSTAB_BUFF")]
    ELSE c

\* C34: the end of the player's phase leaves on the field the cards that
\* were on it and are not placeholders of dead cards, in their order, each
\* without a backstab buff and with its attack lowered by the level of the
\* buff it carried (the other cards as they were): no card of the field
\* carries the buff and none is a dead card.  And at the head of every
\* round the field holds no dead card.
C34_PhaseEndCleansTheField ==
    [][/\ (pc = "turned" /\ ~state.fatal) =>
             /\ CardsFrom(state'.field, 0, state'.field.numCards)
                   = [k \in 1..Len(Undead(state.field)) |-> Unbuffed(Undead(state.field)[k])]
             /\ \A j \in FieldSlots(state') :
                   /\ ~HasAttr(F(state', j), "BACKSTAB_BUFF")
                   /\ ~HasAttr(F(state', j), "DEAD")
       /\ pc' = "head" => \A j \in FieldSlots(state') : ~HasAttr(F(state', j), "DEAD")]_vars

\* C34 witness: the phase has ended on a field that held a card with the
\* backstab buff and a dead card; the field now holds neither.
C34_Witness ==
    /\ pc = "head"
    /\ call.op = "SimPlayerEnd"
    /\ \E j \in FieldSlots(call.before) : HasAttr(F(call.before, j), "BACKSTAB_BUFF")
    /\ \E j \in FieldSlots(call.before) : F(call.before, j) = DeadCard
    /\ state.field.numCards > 0
    /\ \A j \in FieldSlots(state) :
          ~HasAttr(F(state, j), "BACKSTAB_BUFF") /\ ~HasAttr(F(state, j), "DEAD")

\* The position of the worker in the loop of Simulate, counted down from the
\* start of the battle to its end.
Rank ==
    CASE pc = "start" -> 6 [] pc = "head" -> 5 [] pc = "body" -> 4
      [] pc = "played" -> 3 [] pc = "runes" -> 2 [] pc = "turned" -> 1

\* What is left of the battle: the rounds up to maxRounds that have not been
\* entered, and the steps of the round that have not been taken.
Measure ==
    IF pc \in {"after", "done", "exit"}
    THEN (IF pc = "after" THEN 2 ELSE IF pc = "done" THEN 1 ELSE 0)
    ELSE (config.maxRounds + 1 - state.round) * 6 + Rank

\* C35: every battle ends.  Each step of the battle (the boss's phase and the
\* parts of the player's phase, with the deaths, reanimations and sacrifices
\* nested in them) finishes and lowers what is left of the battle, which is
\* never negative; a round that ends raises the round counter by one and a
\* step inside a round leaves it; the body is entered in a round up to
\* maxRounds only, and at most maxRounds rounds are played.
C35_BattleTerminates ==
    [][/\ Measure' < Measure
       /\ Measure' >= 0
       /\ (pc \in {"body", "turned"} /\ pc' = "head")
             => (state'.round = state.round + 1 /\ completed' = completed + 1)
       /\ (pc \in {"head", "played", "runes"} \/ pc' \in {"played", "turned"})
             => (state'.round = state.round /\ completed' = completed)
       /\ pc' = "body" => state.round <= config.maxRounds
       /\ completed' <= config.maxRounds
       /\ pc' = "done" => state'.round <= config.maxRounds]_vars

\* C35 witness: a battle has returned after maxRounds rounds, with cards
\* that died on the way.
C35_Witness ==
    /\ pc = "done"
    /\ completed = config.maxRounds
    /\ state.round = config.maxRounds
    /\ state.grave.numCards > 0

\* The hand card c after a round that lowers its timer.
Cooled(c) == [c EXCEPT !.curTiming = IF @ > 0 THEN @ - 1 ELSE @]

\* C37, as the spec states it: a demon's round leaves the timer of every
\* card of the hand as it was.
C37_AsStated ==
    (pc = "head" /\ call.op = "SimDemon") =>
        \A i \in 0..(call.before.hand.numCards - 1) :
            state.hand.cards[i].curTiming = call.before.hand.cards[i].curTiming

\* C37: the timers of the hand go down in the demon's rounds too.  A demon's
\* round leaves every card that was in the hand in its slot, its timer
\* lowered by one when it was positive and the card otherwise as it was; the
\* round takes no card out of the hand.
C37_BossRoundLowersTimers ==
    (pc = "head" /\ call.op = "SimDemon") =>
        /\ state.hand.numCards >= call.before.hand.numCards
        /\ \A i \in 0..(call.before.hand.numCards - 1) :
              state.hand.cards[i] = Cooled(call.before.hand.cards[i])

\* C37 witness: a demon's round (one in which the demon acts) has ended
\* with a card in the hand whose timer was positive; it is one lower.
C37_Witness ==
    /\ pc = "head"
    /\ call.op = "SimDemon"
    /\ call.before.round >= 5
    /\ \E i \in 0..(call.before.hand.numCards - 1) :
          /\ call.before.hand.cards[i].curTiming > 0
          /\ state.hand.cards[i].curTiming = call.before.hand.cards[i].curTiming - 1

\* The number of cards of the name in the four sets of the State.
CountInPlay(s, name) ==
    CountName(s.deck, name) + CountName(s.hand, name) + CountName(s.field, name)
        + CountName(s.grave, name)

\* The set of cards holds no dead card.
NoDeadCard(cs) == \A k \in 0..(cs.numCards - 1) : ~HasAttr(cs.cards[k], "DEAD")

\* C38: the cards are conserved.  At the head of every round the deck, the
\* hand, the field and the graveyard hold together as many cards as the
\* initial deck, and as many of each name; and the deck, the hand and the
\* graveyard never hold a dead card.
C38_CardsConserved ==
    /\ (pc = "head" /\ ~state.fatal) =>
          /\ state.deck.numCards + state.hand.numCards + state.field.numCards
                + state.grave.numCards = Len(config.theDeck)
          /\ \A k \in 1..Len(config.theDeck) :
                CountInPlay(state, config.theDeck[k].name)
                   = Cardinality({x \in 1..Len(config.theDeck) :
                                     config.theDeck[x].name = config.theDeck[k].name})
    /\ pc # "start" =>
          NoDeadCard(state.deck) /\ NoDeadCard(state.hand) /\ NoDeadCard(state.grave)

\* The class abilities that place the buff of the type.
AbilitiesOf(buffType) ==
    {t \in {"TUNDRA_HP", "FOREST_HP", "MTN_HP", "SWAMP_HP",
            "TUNDRA_ATK", "FOREST_ATK", "MTN_ATK", "SWAMP_ATK"} : BuffOf(t) = buffType}

\* The slots of the field, other than j, that hold a living card with the
\* class ability that places the buff.
SourcesOf(s, j, buff) ==
    {k \in FieldSlots(s) \ {j} :
        /\ F(s, k).hp > 0
        /\ ~HasAttr(F(s, k), "DEAD")
        /\ \E t \in AbilitiesOf(buff.type) : CountAttr(F(s, k), t, buff.level) > 0}

\* C39: the class buffs do not outlive their sources.  At the head of every
\* round each class buff of a card of the field has its own source: the
\* card holds no more buffs of a type and a level than there are other
\* living cards on the field with the class ability of that level.
C39_BuffsHaveLivingSources ==
    (pc = "head" /\ ~state.fatal) =>
        \A j \in FieldSlots(state) :
            \A i \in 1..Len(F(state, j).attr) :
                LET buff == F(state, j).attr[i]
                IN buff.type \in HpBuffs \cup AtkBuffs =>
                      CountAttr(F(state, j), buff.type, buff.level)
                         <= Cardinality(SourcesOf(state, j, buff))

\* C40: the damage is accounted for.  In every state of the battle the
\* damage done to the demon, dmgDone, is the demon's base hp less its hp.
C40_DamageAccounted ==
    state.dmgDone = state.demon.baseHp - state.demon.hp

\* C40 witness: a battle has returned in which the demon has been damaged
\* by attacks of the cards and by the rune Leaf (the battle has passed
\* round 14 and a charge of the rune is used).
C40_Witness ==
    /\ pc = "done"
    /\ state.dmgDone > 0
    /\ state.demon.hp = state.demon.baseHp - state.dmgDone
    /\ state.demon.baseHp = config.theDemon.baseHp
    /\ \E i \in 1..state.numRunes :
          state.runes[i].attr.type = "LEAF" /\ state.runes[i].chargesUsed > 0

(***************************************************************************)
(* The cloud specification: cards are played to the field in any order,    *)
(* the demon casts Toxic Clouds on it, RemoveDeadCards ends a phase.       *)
(*   pc = "phase" throughout; call and completed as in the phase           *)
(*   specification.                                                        *)
(***************************************************************************)
CloudConfig ==
    Config(<<Catalogue.Squire, Catalogue.Golem, Catalogue.Forester>>, Catalogue.Imp,
           <<>>, 10, Ceiling)

CloudLevels == {1, 4}

CloudInit ==
    /\ config = CloudConfig
    /\ state = InitState([ZeroState EXCEPT !.seedW = Word(0, 1), !.seedZ = Word(0, 2)],
                         InitDefaultState(config))
    /\ pc = "phase"
    /\ call = PhaseCall("none", ZeroState, "", 0)
    /\ completed = 0
    /\ hitRoundX = FALSE
    /\ card = ZeroCard
    /\ NoProgram

\* The case ATTR_TOXIC_CLOUDS of the switch of SimDemon.
Clouds ==
    /\ pc = "phase"
    /\ completed < MaxOps
    /\ \E level \in CloudLevels :
          /\ state' = Call("DemonAbility", <<state, Attr("TOXIC_CLOUDS", level)>>)
          /\ call' = PhaseCall("TOXIC_CLOUDS", state, "", level)
    /\ completed' = completed + 1
    /\ UNCHANGED <<pc, hitRoundX, config, card>>
    /\ UNCHANGED progVars

CloudNext == Play \/ Clouds \/ EndPhase

CloudSpec == CloudInit /\ [][CloudNext]_vars

\* The card Toxic Clouds of the level leaves of the living card c without
\* Immunity: the dead card if the damage kills it, else the card with the
\* damage taken and the status of the clouds on it.
Clouded(c, level) ==
    IF c.hp <= level THEN DeadCard
    ELSE IF HasAttr(c, "TOXIC_CLOUDS") THEN [c EXCEPT !.hp = @ - level]
    ELSE [c EXCEPT !.hp = @ - level,
                   !.attr = Append(@, Attr("TOXIC_CLOUDS", level))]

\* C36: Toxic Clouds damages every living card of the field that lacks
\* Immunity, wherever it stands relative to the immune cards, and leaves
\* the immune cards and the dead cards as they were.
C36_CloudsReachEveryCard ==
    call.op = "TOXIC_CLOUDS" =>
        /\ state.field.numCards = call.before.field.numCards
        /\ \A j \in FieldSlots(call.before) :
              LET c == F(call.before, j)
              IN F(state, j) = IF c.hp > 0 /\ ~HasAttr(c, "IMMUNITY")
                               THEN Clouded(c, call.level)
                               ELSE c

====
